---- MODULE Spec2Model ----
(***************************************************************************)
(* A state-machine model of the CEP lookup engine of                       *)
(* packages/cep-lookup/src/index.ts: validation, the InMemoryCache, the    *)
(* sliding-window rate limiter, the staggered provider race with its       *)
(* shared AbortController, per-provider timeouts, retries with backoff,    *)
(* and the event stream.                                                   *)
(*                                                                         *)
(* One action is one event-loop task together with the microtasks it       *)
(* drains: a call of lookup(), the settlement of one fetch, the firing of  *)
(* one timer.  Strings that the code inspects (the CEP, address fields)    *)
(* are sequences of one-character strings.                                 *)
(***************************************************************************)
EXTENDS Integers, Sequences, FiniteSets, TLC

(***************************************************************************)
(* Bounds of the model.                                                    *)
(***************************************************************************)
MaxTime == 4
MaxCalls == 3
MaxRaceCalls == 1
MaxRateCalls == 4
MaxLen == 9
MaxCeps == 3
MaxSize == 2
MaxSizeTime == 2
MaxConcurrency == 4
MaxValidateTime == 2
MaxRetries == 1
MaxProviders == 3

(***************************************************************************)
(* Program constants.                                                      *)
(***************************************************************************)
\* JavaScript's Infinity (the default ttl and maxSize): a number above every
\* time and size the model reaches.
Infinity == 999999

VARIABLES
    options,            \* the constructor's options (fixed after Init)
    sortedProviders,    \* this.sortedProviders: the priority order
    now,                \* Date.now(), in ms
    requestTimestamps,  \* this.requestTimestamps
    cache,              \* the InMemoryCache's Map, in insertion order
    events,             \* the events the last task emitted, in order
    pc,                 \* where the current lookup() call stands
    call,               \* the current lookup() call: its cep, attempt, outcome
    controllers,        \* one AbortController per race attempt: signal.aborted
    staggerTimeout,     \* the stagger timer of the current attempt
    secondaryPromise,   \* the secondaryPromise of the current attempt
    branches,           \* every createProviderPromise call so far
    calls,              \* number of lookup() calls made
    admitted,           \* history: the times of the calls the limiter let in
    bulk,                \* the lookupCeps() call: its locals and its workers
    warm,               \* the warmup() call and its probes
    access              \* the last direct get() or has() of the cache

vars == <<options, sortedProviders, now, requestTimestamps, cache, events, pc,
          call, controllers, staggerTimeout, secondaryPromise, branches, calls,
          admitted, bulk, warm, access>>

(***************************************************************************)
(* Strings.                                                                *)
(***************************************************************************)
Digits == {"0", "1", "2", "3", "4", "5", "6", "7", "8", "9"}

Whitespace == {" "}

IsDigits(s, from, to) == \A i \in from..to : s[i] \in Digits

\* The pattern without its end anchor: a partial match is enough.
cepRegexTest_Prefix(s) ==
    \/ Len(s) >= 8 /\ IsDigits(s, 1, 8)
    \/ Len(s) >= 9 /\ IsDigits(s, 1, 5) /\ s[6] = "-" /\ IsDigits(s, 7, 9)

\* /^(\d{8}|\d{5}-\d{3})$/.test(cep)
cepRegexTest(s) ==
    \/ Len(s) = 8 /\ IsDigits(s, 1, 8)
    \/ Len(s) = 9 /\ IsDigits(s, 1, 5) /\ s[6] = "-" /\ IsDigits(s, 7, 9)

\* A cleaning step that keeps the hyphen.
ReplaceFirstHyphen_Keep(s) == s

\* String.prototype.replace("-", ""): removes the first hyphen only.
ReplaceFirstHyphen(s) ==
    IF \E i \in 1..Len(s) : s[i] = "-"
    THEN LET k == CHOOSE i \in 1..Len(s) :
                      s[i] = "-" /\ \A j \in 1..(i - 1) : s[j] # "-"
         IN SubSeq(s, 1, k - 1) \o SubSeq(s, k + 1, Len(s))
    ELSE s

\* validateCep: the cleaned CEP; defined where cepRegexTest holds, and the
\* call throws CepValidationError elsewhere.
validateCep(s) == ReplaceFirstHyphen(s)

RECURSIVE TrimStart(_)
TrimStart(s) ==
    IF s # <<>> /\ Head(s) \in Whitespace THEN TrimStart(Tail(s)) ELSE s

RECURSIVE TrimEnd(_)
TrimEnd(s) ==
    IF s # <<>> /\ s[Len(s)] \in Whitespace
    THEN TrimEnd(SubSeq(s, 1, Len(s) - 1))
    ELSE s

\* A trim of the start only.
Trim_StartOnly(s) == TrimStart(s)

\* String.prototype.trim
Trim(s) == TrimEnd(TrimStart(s))

\* sanitizeAddress: every string property trimmed.
\* The value of a key an object does not have.
Undefined == <<"undefined">>

\* The state abbreviation is kept whole: no response of the model pads it.
sanitizeAddress(a) ==
    [cep |-> Trim(a.cep), state |-> a.state, street |-> Trim(a.street),
     service |-> a.service,
     ibge |-> IF a.ibge = Undefined THEN Undefined ELSE Trim(a.ibge),
     ddd |-> IF a.ddd = Undefined THEN Undefined ELSE Trim(a.ddd)]

(***************************************************************************)
(* InMemoryCache: the Map as a sequence of entries in insertion order.     *)
(***************************************************************************)
CacheHas(c, key) == \E i \in 1..Len(c) : c[i].key = key

CacheIndex(c, key) == CHOOSE i \in 1..Len(c) : c[i].key = key

\* Map.prototype.delete
MapDelete(c, key) == SelectSeq(c, LAMBDA e : e.key # key)

\* A ttl test that expires an entry as old as ttl.
Expired_AtTtl(entry, ttl, t) == ttl # Infinity /\ t - entry.timestamp >= ttl

\* The ttl test of get() and has(): the entry is older than ttl.
Expired(entry, ttl, t) == ttl # Infinity /\ t - entry.timestamp > ttl

\* InMemoryCache.get: TRUE when it returns an Address (and not undefined).
CacheGetHit(c, key, ttl, t) ==
    CacheHas(c, key) /\ ~Expired(c[CacheIndex(c, key)], ttl, t)

\* InMemoryCache.get: the returned Address, where CacheGetHit holds.
CacheGetValue(c, key) == c[CacheIndex(c, key)].value

\* A get that moves the entry it finds behind the others (access order).
CacheAfterGet_Touch(c, key, ttl, t) ==
    IF ~CacheHas(c, key) THEN c
    ELSE IF Expired(c[CacheIndex(c, key)], ttl, t) THEN MapDelete(c, key)
    ELSE Append(MapDelete(c, key), c[CacheIndex(c, key)])

\* InMemoryCache.get: the Map after the call (an expired entry is deleted).
CacheAfterGet(c, key, ttl, t) ==
    IF CacheHas(c, key) /\ Expired(c[CacheIndex(c, key)], ttl, t)
    THEN MapDelete(c, key)
    ELSE c

\* A set that does not delete the key's entry before it counts.
CacheSet_CountsExisting(c, key, value, maxSize, t) ==
    LET c2 == IF Len(c) >= maxSize /\ c # <<>> THEN Tail(c) ELSE c
    IN Append(MapDelete(c2, key),
              [key |-> key, value |-> value, timestamp |-> t])

\* A set that evicts only once the Map is over its limit.
CacheSet_EvictsWhenOver(c, key, value, maxSize, t) ==
    LET c1 == IF CacheHas(c, key) THEN MapDelete(c, key) ELSE c
        c2 == IF Len(c1) > maxSize /\ c1 # <<>> THEN Tail(c1) ELSE c1
    IN Append(c2, [key |-> key, value |-> value, timestamp |-> t])

\* A set that overwrites the entry of a key it holds where it stands.
CacheSet_InPlace(c, key, value, maxSize, t) ==
    IF CacheHas(c, key)
    THEN [c EXCEPT ![CacheIndex(c, key)] =
                      [key |-> key, value |-> value, timestamp |-> t]]
    ELSE LET c2 == IF Len(c) >= maxSize /\ c # <<>> THEN Tail(c) ELSE c
         IN Append(c2, [key |-> key, value |-> value, timestamp |-> t])

\* InMemoryCache.set
CacheSet(c, key, value, maxSize, t) ==
    LET c1 == IF CacheHas(c, key) THEN MapDelete(c, key) ELSE c
        c2 == IF Len(c1) >= maxSize /\ c1 # <<>> THEN Tail(c1) ELSE c1
    IN Append(c2, [key |-> key, value |-> value, timestamp |-> t])

\* InMemoryCache.has: the returned boolean.  The Map after the call is that
\* of get(), CacheAfterGet.
InMemoryCacheHas(c, key, ttl, t) ==
    IF ~CacheHas(c, key) THEN FALSE
    ELSE IF Expired(c[CacheIndex(c, key)], ttl, t) THEN FALSE
    ELSE TRUE

\* No get(), has() or set() was made yet.  An access records its operation
\* and key, what it returned (found, value; for set, the value it was given)
\* and history: whether the Map held the key before the call, the entry it
\* held and its age, the size of the Map before the call, and whether the
\* Map holds the key after the call.
NoAccess ==
    [op |-> "none", key |-> <<>>, found |-> FALSE,
     value |-> [cep |-> <<>>, state |-> "", street |-> <<>>,
               service |-> "none", ibge |-> Undefined, ddd |-> Undefined],
     held |-> FALSE,
     entry |-> [cep |-> <<>>, state |-> "", street |-> <<>>,
               service |-> "none", ibge |-> Undefined, ddd |-> Undefined],
     age |-> 0, holds |-> FALSE, size |-> 0]

\* InMemoryCache.delete
CacheDelete(c, key) == MapDelete(c, key)

\* InMemoryCache.clear
CacheClear(c) == <<>>

(***************************************************************************)
(* Providers, addresses, errors.                                           *)
(***************************************************************************)
ProviderNames == <<"ViaCEP", "BrasilAPI", "ApiCEP", "OpenCEP">>

ProviderName(p) == ProviderNames[p]

NoAddress ==
    [cep |-> <<>>, state |-> "", street |-> <<>>, service |-> "none",
     ibge |-> Undefined, ddd |-> Undefined]

NoError == [kind |-> "none", provider |-> 0, disp |-> 0, errors |-> <<>>]

\* An error thrown for dispatch `disp` of provider p: the fetcher's rejection
\* ("FetchError"), the transform's throw ("TransformError"), the timeout
\* ("ProviderTimeoutError") or the abort ("AbortError").  Two errors are the
\* same object iff they are equal.
ErrorOf(kind, p, disp) ==
    [kind |-> kind, provider |-> p, disp |-> disp, errors |-> <<>>]

\* The AggregateError Promise.any rejects with.
AggregateError(errs) ==
    [kind |-> "AggregateError", provider |-> 0, disp |-> 0, errors |-> errs]

AllProvidersFailedError(errs) ==
    [kind |-> "AllProvidersFailedError", provider |-> 0, disp |-> 0,
     errors |-> errs]

RateLimitError ==
    [kind |-> "RateLimitError", provider |-> 0, disp |-> 0, errors |-> <<>>]

CepValidationError ==
    [kind |-> "CepValidationError", provider |-> 0, disp |-> 0,
     errors |-> <<>>]

\* NNNNNNNN written NNNNN-NNN
Hyphenated(c) == SubSeq(c, 1, 5) \o <<"-">> \o SubSeq(c, 6, 8)

\* What the provider's service answers for a CEP: ViaCEP answers with the
\* hyphenated CEP and (here) padded fields, ApiCEP with the hyphenated CEP,
\* the others with the bare CEP.  ViaCEP's answer carries the IBGE code and
\* the area code of the city (18, in a state whose capital has 11),
\* OpenCEP's the IBGE code alone, the others neither.
RawResponse(p, c) ==
    IF ProviderName(p) = "ViaCEP"
    THEN [cep |-> <<" ">> \o Hyphenated(c) \o <<" ">>, state |-> "SP",
          street |-> <<" ", "S", "e", " ">>,
          ibge |-> <<"3", "5", "0", "4", "0", "0", "8">>,
          ddd |-> <<"1", "8">>]
    ELSE IF ProviderName(p) = "ApiCEP"
    THEN [cep |-> Hyphenated(c), state |-> "SP", street |-> <<"S", "e">>,
          ibge |-> Undefined, ddd |-> Undefined]
    ELSE IF ProviderName(p) = "OpenCEP"
    THEN [cep |-> c, state |-> "SP", street |-> <<"S", "e">>,
          ibge |-> <<"3", "5", "5", "0", "3", "0", "8">>, ddd |-> Undefined]
    ELSE [cep |-> c, state |-> "SP", street |-> <<"S", "e">>,
          ibge |-> Undefined, ddd |-> Undefined]

\* provider.transform: ViaCEP passes response.cep on; the others remove the
\* first hyphen.  The object a transform returns has the keys cep, state,
\* city, neighborhood, street and service: neither ibge nor ddd.
transform(p, response) ==
    IF ProviderName(p) = "ViaCEP"
    THEN [cep |-> response.cep, state |-> response.state,
          street |-> response.street, service |-> ProviderName(p),
          ibge |-> Undefined, ddd |-> Undefined]
    ELSE [cep |-> ReplaceFirstHyphen(response.cep), state |-> response.state,
          street |-> response.street, service |-> ProviderName(p),
          ibge |-> Undefined, ddd |-> Undefined]

\* dddByState: the area code of the capital of each of the 27 federal units.
\* Nothing in the lookup reads it.
dddByState ==
    [AC |-> <<"6", "8">>, AL |-> <<"8", "2">>, AM |-> <<"9", "2">>,
     AP |-> <<"9", "6">>, BA |-> <<"7", "1">>, CE |-> <<"8", "5">>,
     DF |-> <<"6", "1">>, ES |-> <<"2", "7">>, GO |-> <<"6", "2">>,
     MA |-> <<"9", "8">>, MG |-> <<"3", "1">>, MS |-> <<"6", "7">>,
     MT |-> <<"6", "5">>, PA |-> <<"9", "1">>, PB |-> <<"8", "3">>,
     PE |-> <<"8", "1">>, PI |-> <<"8", "6">>, PR |-> <<"4", "1">>,
     RJ |-> <<"2", "1">>, RN |-> <<"8", "4">>, RO |-> <<"6", "9">>,
     RR |-> <<"9", "5">>, RS |-> <<"5", "1">>, SC |-> <<"4", "8">>,
     SE |-> <<"7", "9">>, SP |-> <<"1", "1">>, TO |-> <<"6", "3">>]

(***************************************************************************)
(* The mutable state a handler works on, threaded through the operators    *)
(* below and committed by the action at the end of the task.               *)
(***************************************************************************)
Heap ==
    [branches |-> branches, controllers |-> controllers, events |-> <<>>,
     cache |-> cache, staggerTimeout |-> staggerTimeout,
     secondaryPromise |-> secondaryPromise, pc |-> pc, call |-> call]

\* A branch nothing can happen to any more: its fetch has settled and its
\* timer is not armed.
Dead(b) == b.fetch # "pending" /\ b.timer # "armed"

\* What is left of a dead branch once its promises are garbage: the dispatch
\* is still counted, its outcome is forgotten.
Collected(b) ==
    [b EXCEPT !.start = 0, !.successes = 0, !.failures = 0,
              !.fetch = "collected", !.timer = "none", !.state = "collected",
              !.value = NoAddress, !.reason = NoError]

\* The branches at the end of a task: the dead branches of the attempts
\* before the latest one are unreachable, and collected.
Reachable(m) ==
    [i \in 1..Len(m.branches) |->
        IF Dead(m.branches[i]) /\ m.branches[i].ctl < Len(m.controllers)
        THEN Collected(m.branches[i])
        ELSE m.branches[i]]

Commit(m) ==
    \E h \in {m} :
        /\ branches' = Reachable(h)
        /\ controllers' = h.controllers
        /\ events' = h.events
        /\ cache' = h.cache
        /\ staggerTimeout' = h.staggerTimeout
        /\ secondaryPromise' = h.secondaryPromise
        /\ pc' = h.pc
        /\ call' = h.call

\* this.emitter.emit(name, payload).  The payload is kept for the task that
\* emits it; the events of a dispatch are counted in its branch and those of a
\* lookup() call in the call.  cached tells whether a listener that reads the
\* cache during the emit finds the CEP there.
emit(m, name, p, c, disp, address, error) ==
    LET m1 == [m EXCEPT !.events = Append(@,
                   [name |-> name, provider |-> p, cep |-> c, disp |-> disp,
                    address |-> address, error |-> error,
                    cached |-> CacheHas(m.cache, c)])]
        mine == disp > 0 /\ m.branches[disp].call = m.call.id
    IN IF name = "cache:hit"
       THEN [m1 EXCEPT !.call.cacheHits = @ + 1]
       ELSE IF name = "success"
       THEN [m1 EXCEPT !.branches[disp].successes = @ + 1,
                       !.call.successes = IF mine THEN @ + 1 ELSE @]
       ELSE [m1 EXCEPT !.branches[disp].failures = @ + 1,
                       !.call.failures = IF mine THEN @ + 1 ELSE @]

\* The controller of the attempt in progress.
CurrentCtl(m) == Len(m.controllers)

\* A provider promise without its timeout: the fetch alone decides.
createProviderPromise_NoTimeout(m, p, batch) ==
    [m EXCEPT !.branches = Append(@,
        [provider |-> p, cep |-> m.call.cep, call |-> m.call.id,
         ctl |-> CurrentCtl(m), batch |-> batch, start |-> now,
         successes |-> 0, failures |-> 0, fetch |-> "pending",
         timer |-> "none",
         state |-> "pending", value |-> NoAddress, reason |-> NoError])]

\* createProviderPromise(provider): the fetcher is called with the attempt's
\* signal and the timeout timer is armed when provider.timeout is set.
createProviderPromise(m, p, batch) ==
    [m EXCEPT !.branches = Append(@,
        [provider |-> p, cep |-> m.call.cep, call |-> m.call.id,
         ctl |-> CurrentCtl(m), batch |-> batch, start |-> now,
         successes |-> 0, failures |-> 0, fetch |-> "pending",
         timer |-> IF options.timeout[p] > 0 THEN "armed" ELSE "none",
         state |-> "pending", value |-> NoAddress, reason |-> NoError])]

\* otherProviders.map(createProviderPromise)
RECURSIVE DispatchAll(_, _, _)
DispatchAll(m, ps, batch) ==
    IF ps = <<>> THEN m
    ELSE DispatchAll(createProviderPromise(m, Head(ps), batch), Tail(ps), batch)

\* The branches (indices) of controller ctl and batch k.
BatchOf(m, ctl, k) ==
    {i \in 1..Len(m.branches) :
        m.branches[i].ctl = ctl /\ m.branches[i].batch = k}

\* How many times triggerOthers has dispatched in the attempt of ctl.
Batches(m, ctl) ==
    Cardinality({m.branches[i].batch : i \in
        {j \in 1..Len(m.branches) :
            m.branches[j].ctl = ctl /\ m.branches[j].batch > 0}})

\* A triggerOthers that dispatches the next provider only.
triggerOthers_FirstOnly(m) ==
    LET m1 == [m EXCEPT !.staggerTimeout.state =
                            IF @ = "armed" THEN "cleared" ELSE @]
    IN IF m1.controllers[CurrentCtl(m1)]
       THEN m1
       ELSE DispatchAll(m1, <<Head(m1.call.otherProviders)>>,
                        Batches(m1, CurrentCtl(m1)) + 1)

\* triggerOthers
triggerOthers(m) ==
    LET m1 == [m EXCEPT !.staggerTimeout.state =
                            IF @ = "armed" THEN "cleared" ELSE @]
    IN IF m1.controllers[CurrentCtl(m1)]
       THEN m1
       ELSE DispatchAll(m1, m1.call.otherProviders,
                        Batches(m1, CurrentCtl(m1)) + 1)

\* controller.abort(): the signal is aborted; every onAbort listener clears
\* its provider timer; a fetcher that observes the signal rejects its pending
\* requests with AbortError (no failure event is emitted for those).
Abort(m, ctl) ==
    [m EXCEPT
        !.controllers[ctl] = TRUE,
        !.branches = [i \in 1..Len(m.branches) |->
            LET b == m.branches[i] IN
            IF b.ctl # ctl THEN b
            ELSE [b EXCEPT
                    !.timer = IF @ = "armed" THEN "cleared" ELSE @,
                    !.fetch = IF @ = "pending" /\ options.fetcherObservesAbort
                              THEN "rejected" ELSE @,
                    !.state = IF @ = "pending" /\ b.fetch = "pending"
                                 /\ options.fetcherObservesAbort
                              THEN "rejected" ELSE @,
                    !.reason = IF b.state = "pending" /\ b.fetch = "pending"
                                  /\ options.fetcherObservesAbort
                               THEN ErrorOf("AbortError", b.provider, i)
                               ELSE @]]]

\* A backoff that grows by retryDelay with every attempt.
RetryDelayOf_Linear(attempt) == options.retryDelay * attempt

\* retryDelay * Math.pow(2, attempt - 1)
RetryDelayOf(attempt) == options.retryDelay * (2 ^ (attempt - 1))

\* A finally block that aborts in the multi-provider path only.
AbortInFinally_MultiOnly(m) ==
    IF m.call.otherProviders = <<>> THEN m ELSE Abort(m, CurrentCtl(m))

\* finally { controller.abort() }, in both paths of _lookupFromProviders
AbortInFinally(m) == Abort(m, CurrentCtl(m))

\* A retry loop that runs one attempt too many.
RetryRemains_OneMore(attempt) == attempt + 1 <= 1 + options.retries

\* The retry loop goes on after the attempt of index `attempt` failed:
\* attempt + 1 < maxAttempts.
RetryRemains(attempt) == attempt + 1 < 1 + options.retries

\* The end of _lookupFromProviders (its finally block) and what lookup()'s
\* retry loop does with the outcome.
FinishAttempt(m, ok, value, err) ==
    LET m1 == [m EXCEPT !.staggerTimeout.state =
                            IF @ = "armed" THEN "cleared" ELSE @]
        m2 == AbortInFinally(m1)
    IN IF ok
       THEN [m2 EXCEPT !.pc = "resolved", !.call.result = value,
                       !.call.settledAt = now]
       ELSE IF RetryRemains(m2.call.attempt)
       THEN [m2 EXCEPT !.pc = "backoff",
                       !.call.lastError = err,
                       !.call.attempt = @ + 1,
                       !.call.backoffUntil =
                            now + RetryDelayOf(m2.call.attempt + 1)]
       ELSE [m2 EXCEPT !.pc = "rejected",
                       !.call.lastError = err,
                       !.call.error = err]

\* The errors of a batch in the order of its promises.
RECURSIVE ReasonsOf(_, _)
ReasonsOf(m, idx) ==
    IF idx = {} THEN <<>>
    ELSE LET i == CHOOSE x \in idx : \A y \in idx : x <= y
         IN <<m.branches[i].reason>> \o ReasonsOf(m, idx \ {i})

\* A single-provider path that goes through Promise.any like the others.
AwaitSingle_Aggregate(m, b) ==
    IF b.state = "fulfilled"
    THEN FinishAttempt(m, TRUE, b.value, NoError)
    ELSE FinishAttempt(m, FALSE, NoAddress,
                       AllProvidersFailedError(<<b.reason>>))

\* The single-provider path: return await createProviderPromise(bestProvider)
AwaitSingle(m, b) ==
    IF b.state = "fulfilled"
    THEN FinishAttempt(m, TRUE, b.value, NoError)
    ELSE FinishAttempt(m, FALSE, NoAddress, b.reason)

\* What the settlement of branch i (its Promise.race) does to the attempt it
\* belongs to, while that attempt is in progress.
Propagate(m, i) ==
    LET b == m.branches[i]
        primary == m.branches[CHOOSE j \in BatchOf(m, b.ctl, 0) : TRUE]
    IN
    IF m.call.otherProviders = <<>>
    THEN AwaitSingle(m, b)
    ELSE IF b.batch = 0
    THEN IF b.state = "fulfilled"
         THEN FinishAttempt(m, TRUE, b.value, NoError)
         ELSE \* primaryPromise's catch: triggerOthers(), then rethrow
              LET m1 == triggerOthers(m) IN
              IF m1.secondaryPromise.state = "rejected"
              THEN FinishAttempt(m1, FALSE, NoAddress,
                      AllProvidersFailedError(
                          <<b.reason, m1.secondaryPromise.reason>>))
              ELSE m1
    ELSE IF b.state = "fulfilled"
    THEN \* Promise.any(promises).then(resolve)
         IF m.secondaryPromise.state = "pending"
         THEN FinishAttempt(
                 [m EXCEPT !.secondaryPromise =
                     [state |-> "fulfilled", value |-> b.value,
                      reason |-> NoError]],
                 TRUE, b.value, NoError)
         ELSE m
    ELSE \* Promise.any(promises).catch(reject), once the whole batch rejected
         LET batch == BatchOf(m, b.ctl, b.batch)
             agg == AggregateError(ReasonsOf(m, batch))
         IN IF /\ \A j \in batch : m.branches[j].state = "rejected"
               /\ m.secondaryPromise.state = "pending"
            THEN LET m1 == [m EXCEPT !.secondaryPromise =
                               [state |-> "rejected", value |-> NoAddress,
                                reason |-> agg]]
                 IN IF primary.state = "rejected"
                    THEN FinishAttempt(m1, FALSE, NoAddress,
                            AllProvidersFailedError(<<primary.reason, agg>>))
                    ELSE m1
            ELSE m

\* Branch i's Promise.race settles (if it had not) with the given outcome.
Settle(m, i, st, value, reason) ==
    IF m.branches[i].state # "pending" THEN m
    ELSE LET m1 == [m EXCEPT !.branches[i].state = st,
                             !.branches[i].value = value,
                             !.branches[i].reason = reason]
         IN IF m1.controllers[m1.branches[i].ctl] THEN m1
            ELSE Propagate(m1, i)

\* A stagger timer set to twice the configured delay.
StaggerDelayOf_Doubled == options.staggerDelay * 2

\* A stagger timer set to half the configured delay.
StaggerDelayOf_Halved == options.staggerDelay \div 2

\* The stagger timer's delay: this.staggerDelay

StaggerDelayOf == options.staggerDelay

\* _lookupFromProviders, up to its first await.
lookupFromProviders(m) ==
    LET m1 == [m EXCEPT
                 !.controllers = Append(@, FALSE),
                 !.pc = "racing",
                 !.call.bestProvider = Head(sortedProviders),
                 !.call.otherProviders = Tail(sortedProviders),
                 !.staggerTimeout =
                     IF Tail(sortedProviders) = <<>>
                     THEN [state |-> "none", deadline |-> 0]
                     ELSE [state |-> "armed",
                           deadline |-> now + StaggerDelayOf],
                 !.secondaryPromise =
                     [state |-> "pending", value |-> NoAddress,
                      reason |-> NoError]]
    IN createProviderPromise(m1, Head(sortedProviders), 0)

(***************************************************************************)
(* The rate limiter.                                                       *)
(***************************************************************************)
\* requestTimestamps.filter((ts) => ts > windowStart)
PruneTimestamps(ts, t) ==
    SelectSeq(ts, LAMBDA x : x > t - options.rateLimit.per)

\* A limiter that lets one call too many in.
RateLimited_OneMore(ts, t) ==
    /\ options.hasRateLimit
    /\ Len(PruneTimestamps(ts, t)) > options.rateLimit.requests

\* checkRateLimit throws RateLimitError
RateLimited(ts, t) ==
    /\ options.hasRateLimit
    /\ Len(PruneTimestamps(ts, t)) >= options.rateLimit.requests

\* A limiter that records the rejected attempt too.
TimestampsAfterCheck_RecordsRejected(ts, t) ==
    IF ~options.hasRateLimit THEN ts ELSE Append(PruneTimestamps(ts, t), t)

\* this.requestTimestamps after checkRateLimit
TimestampsAfterCheck(ts, t) ==
    IF ~options.hasRateLimit THEN ts
    ELSE IF RateLimited(ts, t) THEN PruneTimestamps(ts, t)
    ELSE Append(PruneTimestamps(ts, t), t)

(***************************************************************************)
(* lookupCeps: the worker pool.  A lookup() made by a worker is seen from  *)
(* outside: it checks the rate limit and validates in the call itself, and *)
(* otherwise settles later, with an Address or with the providers' error.  *)
(***************************************************************************)
\* Before lookupCeps is called.  Besides the locals of lookupCeps the record
\* keeps history: every lookup() the workers made (lookups), the largest
\* number of workers that awaited one at once (maxInFlight) and the indices
\* in the order their results were written (order).
NoBulk ==
    [state |-> "idle", ceps |-> <<>>, concurrency |-> 0, cepIndex |-> 0,
     results |-> <<>>, workers |-> <<>>, lookups |-> <<>>, returned |-> <<>>,
     maxInFlight |-> 0, order |-> <<>>]

\* An empty slot of new Array(ceps.length).
Hole ==
    [kind |-> "hole", cep |-> <<>>, data |-> NoAddress, provider |-> "",
     error |-> NoError]

\* new Array(n)
RECURSIVE NewArray(_)
NewArray(n) == IF n = 0 THEN <<>> ELSE Append(NewArray(n - 1), Hole)

\* What a worker works on: the locals of lookupCeps and the limiter.
BulkHeap ==
    [bulk |-> bulk, requestTimestamps |-> requestTimestamps,
     admitted |-> admitted, calls |-> calls]

\* The workers that await a lookup.
Awaiting(b) == {k \in 1..Len(b.workers) : b.workers[k].state = "awaiting"}

Max(a, b) == IF a >= b THEN a ELSE b

\* As many workers as inputs, whatever the concurrency.
Min_Second(a, b) == b

\* Math.min
Min(a, b) == IF a <= b THEN a ELSE b

\* Worker k takes the next index and calls this.lookup(cep): the call checks
\* the rate limit and validates at once, and the worker awaits its promise.
StartLookup(h, k) ==
    LET b == h.bulk
        currentIndex == b.cepIndex
        cep == b.ceps[currentIndex + 1]
        limited == RateLimited(h.requestTimestamps, now)
        rejection == IF limited THEN RateLimitError
                     ELSE IF ~cepRegexTest(cep) THEN CepValidationError
                     ELSE NoError
        lk == [index |-> currentIndex, worker |-> k, cep |-> cep,
               state |-> IF rejection = NoError THEN "pending"
                         ELSE "rejected",
               value |-> NoAddress, error |-> rejection]
        b1 == [b EXCEPT !.cepIndex = @ + 1,
                        !.lookups = Append(@, lk),
                        !.workers[k] = [state |-> "awaiting",
                                        lookup |-> Len(b.lookups) + 1]]
    IN [h EXCEPT
          !.bulk = [b1 EXCEPT
                      !.maxInFlight = Max(@, Cardinality(Awaiting(b1)))],
          !.requestTimestamps = TimestampsAfterCheck(@, now),
          !.admitted = IF options.hasRateLimit /\ ~limited
                       THEN Append(@, now) ELSE @,
          !.calls = @ + 1]

\* The worker's loop, from its test: while (cepIndex < ceps.length).
WorkerLoop(h, k) ==
    IF h.bulk.cepIndex < Len(h.bulk.ceps)
    THEN StartLookup(h, k)
    ELSE [h EXCEPT !.bulk.workers[k].state = "done"]

\* A failure entry that drops the error of the lookup.
ResultOf_DropError(lk) ==
    [kind |-> IF lk.state = "resolved" THEN "success" ELSE "failure",
     cep |-> lk.cep,
     data |-> lk.value,
     provider |-> IF lk.state = "resolved" THEN lk.value.service ELSE "",
     error |-> NoError]

\* The entry of results a worker writes for a settled lookup.
ResultOf(lk) ==
    IF lk.state = "resolved" /\ lk.value # NoAddress
    THEN [kind |-> "success", cep |-> lk.cep, data |-> lk.value,
          provider |-> lk.value.service, error |-> NoError]
    ELSE [kind |-> "failure", cep |-> lk.cep, data |-> NoAddress,
          provider |-> "",
          error |-> IF lk.state = "resolved"
                    THEN ErrorOf("No address found", 0, 0)
                    ELSE lk.error]

\* A worker that appends its result to the results.
Resume_Push(h, k) ==
    LET lk == h.bulk.lookups[h.bulk.workers[k].lookup]
    IN WorkerLoop([h EXCEPT
                     !.bulk.results[Len(h.bulk.order) + 1] = ResultOf(lk),
                     !.bulk.order = Append(@, lk.index)], k)

\* A worker without the catch: the rejection of its lookup is its own.
Resume_NoCatch(h, k) ==
    LET lk == h.bulk.lookups[h.bulk.workers[k].lookup]
    IN IF lk.state = "rejected"
       THEN [h EXCEPT !.bulk.workers[k].state = "failed"]
       ELSE WorkerLoop([h EXCEPT
                          !.bulk.results[lk.index + 1] = ResultOf(lk),
                          !.bulk.order = Append(@, lk.index)], k)

\* Worker k resumes after its await: it writes the result and loops.
Resume(h, k) ==
    LET lk == h.bulk.lookups[h.bulk.workers[k].lookup]
    IN WorkerLoop([h EXCEPT !.bulk.results[lk.index + 1] = ResultOf(lk),
                            !.bulk.order = Append(@, lk.index)], k)

\* The microtasks: the workers whose promise has settled resume in order; a
\* worker whose next lookup rejects in the call itself queues up again.
RECURSIVE Drain(_, _)
Drain(h, queue) ==
    IF queue = <<>> THEN h
    ELSE LET k == Head(queue)
             h1 == Resume(h, k)
             w == h1.bulk.workers[k]
             again == IF /\ w.state = "awaiting"
                         /\ h1.bulk.lookups[w.lookup].state # "pending"
                      THEN <<k>> ELSE <<>>
         IN Drain(h1, Tail(queue) \o again)

\* Array.from({length: Math.min(concurrency, ceps.length)}, () => worker())
RECURSIVE StartWorkers(_, _, _)
StartWorkers(h, k, n) ==
    IF k > n THEN h
    ELSE StartWorkers(
            WorkerLoop([h EXCEPT !.bulk.workers =
                           Append(@, [state |-> "new", lookup |-> 0])], k),
            k + 1, n)

\* await Promise.all(workers); return results.filter(Boolean)
\* Promise.all rejects as soon as one of the workers' promises does.
AwaitWorkers(h) ==
    IF h.bulk.state # "running" THEN h
    ELSE IF \E k \in 1..Len(h.bulk.workers) :
               h.bulk.workers[k].state = "failed"
    THEN [h EXCEPT !.bulk.state = "rejected"]
    ELSE IF \A k \in 1..Len(h.bulk.workers) : h.bulk.workers[k].state = "done"
    THEN [h EXCEPT !.bulk.state = "resolved",
                   !.bulk.returned =
                       SelectSeq(h.bulk.results, LAMBDA r : r.kind # "hole")]
    ELSE h

\* The workers that await a promise which has settled, in order.
Settled(b) ==
    SelectSeq([k \in 1..Len(b.workers) |-> k],
              LAMBDA k : /\ b.workers[k].state = "awaiting"
                         /\ b.lookups[b.workers[k].lookup].state # "pending")

CommitBulk(h) ==
    /\ bulk' = h.bulk
    /\ requestTimestamps' = h.requestTimestamps
    /\ admitted' = h.admitted
    /\ calls' = h.calls

(***************************************************************************)
(* warmup: the ranker.                                                     *)
(***************************************************************************)
\* Before warmup is called.
NoWarm == [state |-> "idle", probes |-> <<>>, returned |-> <<>>]

controlCep == <<"0", "1", "0", "0", "1", "0", "0", "0">>

\* The probe of one provider, up to its await of the fetcher.
Probe(provider) ==
    [provider |-> provider, cep |-> controlCep, start |-> now,
     state |-> "pending", duration |-> 0, error |-> FALSE]

\* this.providers.map(async (provider) => ...)
RECURSIVE Probes(_)
Probes(providers) ==
    IF providers = <<>> THEN <<>>
    ELSE <<Probe(Head(providers))>> \o Probes(Tail(providers))

\* A comparator that puts the slowest first.
Compare_Reversed(a, b) ==
    IF a.duration = Infinity /\ b.duration = Infinity THEN 0
    ELSE IF a.duration = Infinity THEN 0 - 1
    ELSE IF b.duration = Infinity THEN 1
    ELSE b.duration - a.duration

\* (a, b) => a.duration - b.duration: Infinity - Infinity is NaN, which sort
\* takes for 0.
Compare(a, b) ==
    IF a.duration = Infinity /\ b.duration = Infinity THEN 0
    ELSE IF a.duration = Infinity THEN 1
    ELSE IF b.duration = Infinity THEN 0 - 1
    ELSE a.duration - b.duration

\* x put into the sorted s, behind the elements that do not compare greater.
RECURSIVE Insert(_, _)
Insert(s, x) ==
    IF s = <<>> THEN <<x>>
    ELSE IF Compare(s[Len(s)], x) <= 0 THEN Append(s, x)
    ELSE Append(Insert(SubSeq(s, 1, Len(s) - 1), x), s[Len(s)])

\* results.sort(...): Array.prototype.sort is stable.
RECURSIVE Sort(_)
Sort(s) ==
    IF s = <<>> THEN <<>>
    ELSE Insert(Sort(SubSeq(s, 1, Len(s) - 1)), s[Len(s)])

\* sortedResults.map(r => r.provider)
RECURSIVE ProvidersOf(_)
ProvidersOf(results) ==
    IF results = <<>> THEN <<>>
    ELSE <<Head(results).provider>> \o ProvidersOf(Tail(results))

\* After await Promise.all(race): the order is replaced and returned.
AwaitProbes(w) ==
    IF \A i \in 1..Len(w.probes) : w.probes[i].state = "settled"
    THEN /\ sortedProviders' = ProvidersOf(Sort(w.probes))
         /\ warm' = [w EXCEPT !.state = "resolved",
                              !.returned = ProvidersOf(Sort(w.probes))]
    ELSE /\ sortedProviders' = sortedProviders
         /\ warm' = w

(***************************************************************************)
(* Actions.                                                                *)
(***************************************************************************)
\* What a call remembers of the call before it (history).
NoPrev ==
    [cep |-> <<>>, pc |-> "idle", hit |-> FALSE, error |-> "none",
     settledAt |-> 0, destroyed |-> {}]

\* The record of a lookup() call.  Besides the locals of lookup() it keeps
\* history: how many events the call emitted, when it resolved (settledAt),
\* the cache keys the user destroyed since it began (destroyed), and a
\* summary of the call before it (prev).
NewCall(input) ==
    [id |-> calls + 1, input |-> input, cep |-> <<>>, attempt |-> 0,
     cacheHits |-> 0, successes |-> 0, failures |-> 0, result |-> NoAddress,
     error |-> NoError, lastError |-> NoError, backoffUntil |-> 0,
     bestProvider |-> 0, otherProviders |-> <<>>, hit |-> FALSE,
     settledAt |-> 0, destroyed |-> {}, prev |-> NoPrev]

\* The summary the next call keeps of the current one.
PrevOf ==
    [cep |-> call.cep, pc |-> pc, hit |-> call.hit, error |-> call.error.kind,
     settledAt |-> call.settledAt, destroyed |-> call.destroyed]

\* A lookup that validates and probes the cache before it asks the limiter:
\* a call that is invalid or served from the cache takes no permit.
LookupCall_CacheFirst(input) ==
    LET cleanedCep == validateCep(input)
        early == \/ ~cepRegexTest(input)
                 \/ options.cache
                      /\ CacheGetHit(cache, cleanedCep, options.ttl, now)
        m0 == [Heap EXCEPT !.call = [NewCall(input) EXCEPT !.prev = PrevOf]]
    IN  /\ pc \in {"idle", "resolved", "rejected"}
        /\ calls' = calls + 1
        /\ requestTimestamps' =
              IF early THEN requestTimestamps
              ELSE TimestampsAfterCheck(requestTimestamps, now)
        /\ admitted' = IF ~early /\ options.hasRateLimit
                           /\ ~RateLimited(requestTimestamps, now)
                        THEN Append(admitted, now)
                        ELSE admitted
        /\ UNCHANGED <<options, sortedProviders, now, bulk, warm, access>>
        /\ IF ~cepRegexTest(input)
           THEN Commit([m0 EXCEPT !.pc = "rejected",
                                  !.call.error = CepValidationError])
           ELSE IF options.cache
                   /\ CacheGetHit(cache, cleanedCep, options.ttl, now)
           THEN Commit(emit([m0 EXCEPT
                                !.pc = "resolved",
                                !.call.cep = cleanedCep,
                                !.call.hit = TRUE,
                                !.call.settledAt = now,
                                !.call.result = CacheGetValue(cache, cleanedCep)],
                            "cache:hit", 0, cleanedCep, 0, NoAddress, NoError))
           ELSE IF RateLimited(requestTimestamps, now)
           THEN Commit([m0 EXCEPT !.pc = "rejected",
                                  !.call.error = RateLimitError])
           ELSE Commit(lookupFromProviders(
                         [m0 EXCEPT
                            !.call.cep = cleanedCep,
                            !.cache = IF options.cache
                                      THEN CacheAfterGet(cache, cleanedCep,
                                                         options.ttl, now)
                                      ELSE @]))

\* lookup(cep), up to its first await (or its return from the cache, or its
\* throw).  Calls are made one after the other: the caller awaits each.
LookupCall(input) ==
    /\ pc \in {"idle", "resolved", "rejected"}
    /\ calls' = calls + 1
    /\ requestTimestamps' = TimestampsAfterCheck(requestTimestamps, now)
    /\ admitted' = IF options.hasRateLimit
                       /\ ~RateLimited(requestTimestamps, now)
                    THEN Append(admitted, now)
                    ELSE admitted
    /\ UNCHANGED <<options, sortedProviders, now, bulk, warm, access>>
    /\ LET m0 == [Heap EXCEPT
                    !.call = [NewCall(input) EXCEPT !.prev = PrevOf]]
           cleanedCep == validateCep(input)
       IN IF RateLimited(requestTimestamps, now)
          THEN Commit([m0 EXCEPT !.pc = "rejected",
                                 !.call.error = RateLimitError])
          ELSE IF ~cepRegexTest(input)
          THEN Commit([m0 EXCEPT !.pc = "rejected",
                                 !.call.error = CepValidationError])
          ELSE IF options.cache
                  /\ CacheGetHit(cache, cleanedCep, options.ttl, now)
          THEN Commit(emit([m0 EXCEPT
                               !.pc = "resolved",
                               !.call.cep = cleanedCep,
                               !.call.hit = TRUE,
                               !.call.settledAt = now,
                               !.call.result = CacheGetValue(cache, cleanedCep)],
                           "cache:hit", 0, cleanedCep, 0, NoAddress, NoError))
          ELSE Commit(lookupFromProviders(
                        [m0 EXCEPT
                           !.call.cep = cleanedCep,
                           !.cache = IF options.cache
                                     THEN CacheAfterGet(cache, cleanedCep,
                                                        options.ttl, now)
                                     ELSE @]))

\* The fetch of branch i resolves and the provider's transform succeeds: the
\* success handler of fetchPromise runs.
FetchFulfils(i) ==
    /\ i \in 1..Len(branches)
    /\ branches[i].fetch = "pending"
    /\ UNCHANGED <<options, sortedProviders, now, requestTimestamps, calls,
                   admitted, bulk, warm, access>>
    /\ LET b == branches[i]
           sanitizedAddress ==
               sanitizeAddress(transform(b.provider,
                                         RawResponse(b.provider, b.cep)))
           m1 == [Heap EXCEPT !.branches[i].fetch = "fulfilled"]
           m2 == emit(m1, "success", b.provider, b.cep, i, sanitizedAddress,
                      NoError)
           m3 == IF options.cache
                 THEN [m2 EXCEPT !.cache = CacheSet(@, b.cep, sanitizedAddress,
                                                    options.maxSize, now)]
                 ELSE m2
       IN Commit(Settle(m3, i, "fulfilled", sanitizedAddress, NoError))

\* The fetch of branch i rejects (kind "FetchError") or the transform throws
\* (kind "TransformError"): the catch handler of fetchPromise runs.
FetchRejects(i, kind) ==
    /\ i \in 1..Len(branches)
    /\ branches[i].fetch = "pending"
    /\ UNCHANGED <<options, sortedProviders, now, requestTimestamps, calls,
                   admitted, bulk, warm, access>>
    /\ LET b == branches[i]
           error == ErrorOf(kind, b.provider, i)
           m1 == [Heap EXCEPT !.branches[i].fetch = "rejected"]
           m2 == emit(m1, "failure", b.provider, b.cep, i, NoAddress, error)
       IN Commit(Settle(m2, i, "rejected", NoAddress, error))

\* The timeout timer of branch i fires.
ProviderTimeout(i) ==
    /\ i \in 1..Len(branches)
    /\ branches[i].timer = "armed"
    /\ now >= branches[i].start + options.timeout[branches[i].provider]
    /\ UNCHANGED <<options, sortedProviders, now, requestTimestamps, calls,
                   admitted, bulk, warm, access>>
    /\ LET b == branches[i]
           error == ErrorOf("ProviderTimeoutError", b.provider, i)
           m1 == [Heap EXCEPT !.branches[i].timer = "fired"]
           m2 == emit(m1, "failure", b.provider, b.cep, i, NoAddress, error)
       IN Commit(Settle(m2, i, "rejected", NoAddress, error))

\* The stagger timer fires: setTimeout(triggerOthers, this.staggerDelay).
StaggerFires ==
    /\ staggerTimeout.state = "armed"
    /\ now >= staggerTimeout.deadline
    /\ UNCHANGED <<options, sortedProviders, now, requestTimestamps, calls,
                   admitted, bulk, warm, access>>
    /\ Commit(triggerOthers([Heap EXCEPT !.staggerTimeout.state = "fired"]))

\* A retry that runs the whole of lookup() again: the limiter, the cache
\* probe, then the race.
RetryFires_Recheck ==
    /\ pc = "backoff"
    /\ now >= call.backoffUntil
    /\ requestTimestamps' = TimestampsAfterCheck(requestTimestamps, now)
    /\ admitted' = IF options.hasRateLimit
                       /\ ~RateLimited(requestTimestamps, now)
                    THEN Append(admitted, now)
                    ELSE admitted
    /\ UNCHANGED <<options, sortedProviders, now, calls, bulk, warm, access>>
    /\ IF RateLimited(requestTimestamps, now)
       THEN Commit([Heap EXCEPT !.pc = "rejected",
                                !.call.error = RateLimitError])
       ELSE IF options.cache
               /\ CacheGetHit(cache, call.cep, options.ttl, now)
       THEN Commit(emit([Heap EXCEPT
                            !.pc = "resolved",
                            !.call.hit = TRUE,
                            !.call.settledAt = now,
                            !.call.result = CacheGetValue(cache, call.cep)],
                        "cache:hit", 0, call.cep, 0, NoAddress, NoError))
       ELSE Commit(lookupFromProviders(Heap))

\* The backoff timer of the retry loop fires: the next attempt starts.
RetryFires ==
    /\ pc = "backoff"
    /\ now >= call.backoffUntil
    /\ UNCHANGED <<options, sortedProviders, now, requestTimestamps, calls,
                   admitted, bulk, warm, access>>
    /\ Commit(lookupFromProviders(Heap))

\* Some timer is due.
TimerDue ==
    \/ staggerTimeout.state = "armed" /\ now >= staggerTimeout.deadline
    \/ pc = "backoff" /\ now >= call.backoffUntil
    \/ \E i \in 1..Len(branches) :
          /\ branches[i].timer = "armed"
          /\ now >= branches[i].start + options.timeout[branches[i].provider]

\* Some timer is armed, or the cache or the rate limiter reads the clock.
TimeMatters ==
    \/ staggerTimeout.state = "armed"
    \/ pc = "backoff"
    \/ \E i \in 1..Len(branches) : branches[i].timer = "armed"
    \/ options.hasRateLimit
    \/ options.cache /\ options.ttl # Infinity
    \/ warm.state = "running"

\* One millisecond passes; a timer that is due fires before time moves on.
\* Time that nothing can observe is not counted.
Tick ==
    /\ now < MaxTime
    /\ ~TimerDue
    /\ TimeMatters
    /\ now' = now + 1
    /\ events' = <<>>
    /\ UNCHANGED <<options, sortedProviders, requestTimestamps, cache,
                   pc, call, controllers, staggerTimeout, secondaryPromise,
                   branches, calls, admitted, bulk, warm, access>>

\* lookupCeps(ceps, concurrency), up to its await of Promise.all, or to its
\* return.
LookupCepsCall(ceps, concurrency) ==
    /\ bulk.state = "idle"
    /\ events' = <<>>
    /\ UNCHANGED <<options, sortedProviders, now, cache, pc, call, controllers,
                   staggerTimeout, secondaryPromise, branches, warm, access>>
    /\ IF Len(ceps) = 0
       THEN CommitBulk([BulkHeap EXCEPT
                          !.bulk = [NoBulk EXCEPT
                                      !.state = "resolved",
                                      !.concurrency = concurrency]])
       ELSE LET h0 == [BulkHeap EXCEPT
                         !.bulk = [NoBulk EXCEPT
                                     !.state = "running",
                                     !.ceps = ceps,
                                     !.concurrency = concurrency,
                                     !.results = NewArray(Len(ceps))]]
                h1 == StartWorkers(h0, 1, Min(concurrency, Len(ceps)))
            IN CommitBulk(AwaitWorkers(Drain(h1, Settled(h1.bulk))))

\* The lookup of index j that a worker awaits resolves with the Address of
\* provider p.
BulkLookupResolves(j, p) ==
    /\ j \in 1..Len(bulk.lookups)
    /\ bulk.lookups[j].state = "pending"
    /\ events' = <<>>
    /\ UNCHANGED <<options, sortedProviders, now, cache, pc, call, controllers,
                   staggerTimeout, secondaryPromise, branches, warm, access>>
    /\ LET lk == bulk.lookups[j]
           address == sanitizeAddress(
                          transform(p, RawResponse(p, validateCep(lk.cep))))
           h == [BulkHeap EXCEPT
                   !.bulk.lookups[j].state = "resolved",
                   !.bulk.lookups[j].value = address]
       IN CommitBulk(AwaitWorkers(Drain(h, <<lk.worker>>)))

\* The lookup of index j that a worker awaits rejects: every provider failed.
BulkLookupRejects(j) ==
    /\ j \in 1..Len(bulk.lookups)
    /\ bulk.lookups[j].state = "pending"
    /\ events' = <<>>
    /\ UNCHANGED <<options, sortedProviders, now, cache, pc, call, controllers,
                   staggerTimeout, secondaryPromise, branches, warm, access>>
    /\ LET lk == bulk.lookups[j]
           error == IF Len(sortedProviders) = 1
                    THEN ErrorOf("FetchError", sortedProviders[1], j)
                    ELSE AllProvidersFailedError(
                            <<ErrorOf("FetchError", sortedProviders[1], j),
                              AggregateError(
                                 [i \in 1..(Len(sortedProviders) - 1) |->
                                    ErrorOf("FetchError",
                                            sortedProviders[i + 1], j)])>>)
           h == [BulkHeap EXCEPT
                   !.bulk.lookups[j].state = "rejected",
                   !.bulk.lookups[j].error = error]
       IN CommitBulk(AwaitWorkers(Drain(h, <<lk.worker>>)))

\* A warmup that counts as a request of the rate limiter.
WarmupCall_Counted ==
    /\ warm.state = "idle"
    /\ events' = <<>>
    /\ requestTimestamps' = Append(requestTimestamps, now)
    /\ AwaitProbes([warm EXCEPT !.state = "running",
                                !.probes = Probes(options.providers)])
    /\ UNCHANGED <<options, now, cache, pc, call,
                   controllers, staggerTimeout, secondaryPromise, branches,
                   calls, admitted, bulk, access>>

\* warmup(), up to its await of Promise.all.
WarmupCall ==
    /\ warm.state = "idle"
    /\ events' = <<>>
    /\ AwaitProbes([warm EXCEPT !.state = "running",
                                !.probes = Probes(options.providers)])
    /\ UNCHANGED <<options, now, requestTimestamps, cache, pc, call,
                   controllers, staggerTimeout, secondaryPromise, branches,
                   calls, admitted, bulk, access>>

\* The fetcher's promise of probe i fulfils.
ProbeFulfils(i) ==
    /\ warm.state = "running"
    /\ warm.probes[i].state = "pending"
    /\ events' = <<>>
    /\ AwaitProbes([warm EXCEPT
                      !.probes[i].state = "settled",
                      !.probes[i].duration = now - warm.probes[i].start])
    /\ UNCHANGED <<options, now, requestTimestamps, cache, pc, call,
                   controllers, staggerTimeout, secondaryPromise, branches,
                   calls, admitted, bulk, access>>

\* The fetcher's promise of probe i rejects.
ProbeRejects(i) ==
    /\ warm.state = "running"
    /\ warm.probes[i].state = "pending"
    /\ events' = <<>>
    /\ AwaitProbes([warm EXCEPT !.probes[i].state = "settled",
                                !.probes[i].duration = Infinity,
                                !.probes[i].error = TRUE])
    /\ UNCHANGED <<options, now, requestTimestamps, cache, pc, call,
                   controllers, staggerTimeout, secondaryPromise, branches,
                   calls, admitted, bulk, access>>

(***************************************************************************)
(* The race: no cache, no rate limit.                                      *)
(***************************************************************************)
Cep1 == <<"0", "1", "0", "0", "1", "0", "0", "0">>

StaggerDelays == {0, 2}

Timeouts == {0, 1}

\* The primary's timeout is any of Timeouts; the other providers share one.
RaceTimeouts(n) ==
    {[i \in 1..n |-> IF i = 1 THEN t1 ELSE t2] :
        t1 \in Timeouts, t2 \in IF n = 2 THEN Timeouts ELSE {0}}

AllRaceOptions ==
    {[providers |-> [i \in 1..n |-> i], timeout |-> t, staggerDelay |-> sd,
      retries |-> r, retryDelay |-> 1, cache |-> FALSE, ttl |-> Infinity,
      maxSize |-> Infinity, hasRateLimit |-> FALSE,
      rateLimit |-> [requests |-> 0, per |-> 0],
      fetcherObservesAbort |-> oa,
      failureKinds |-> IF n = 1 THEN {"FetchError", "TransformError"}
                       ELSE {"FetchError"}] :
        n \in 1..MaxProviders,
        t \in UNION {RaceTimeouts(k) : k \in 1..MaxProviders},
        sd \in StaggerDelays, r \in 0..MaxRetries, oa \in BOOLEAN}

InitWith(opts) ==
    /\ calls = 0
    /\ options = opts
    /\ sortedProviders = opts.providers
    /\ now = 0
    /\ requestTimestamps = <<>>
    /\ cache = <<>>
    /\ events = <<>>
    /\ pc = "idle"
    /\ call = [NewCall(<<>>) EXCEPT !.id = 0]
    /\ controllers = <<>>
    /\ staggerTimeout = [state |-> "none", deadline |-> 0]
    /\ secondaryPromise = [state |-> "pending", value |-> NoAddress,
                           reason |-> NoError]
    /\ branches = <<>>
    /\ admitted = <<>>
    /\ bulk = NoBulk
    /\ warm = NoWarm
    /\ access = NoAccess

\* The stagger delay is unused with a single provider.  With three providers
\* or more, retries are explored with a fetcher that observes the signal.
RaceOptions ==
    {o \in AllRaceOptions :
        /\ Len(o.timeout) = Len(o.providers)
        /\ Len(o.providers) = 1 => o.staggerDelay = 0
        /\ Len(o.providers) >= 3 => o.retries = 0 \/ o.fetcherObservesAbort}

Init == \E opts \in RaceOptions : InitWith(opts)

Next ==
    \/ calls < MaxRaceCalls /\ LookupCall(Cep1)
    \/ \E i \in 1..Len(branches) : FetchFulfils(i)
    \/ \E i \in 1..Len(branches) :
          \E kind \in options.failureKinds : FetchRejects(i, kind)
    \/ \E i \in 1..Len(branches) : ProviderTimeout(i)
    \/ StaggerFires
    \/ RetryFires
    \/ Tick

Spec == Init /\ [][Next]_vars

(***************************************************************************)
(* Claims about the race.                                                  *)
(***************************************************************************)
\* The branches of the attempt in progress (or of the latest attempt).
Current == {i \in 1..Len(branches) : branches[i].ctl = Len(controllers)}

\* Branch i fulfils in this step, in an attempt that was still in progress.
FulfilsNow(i) ==
    /\ i \in Current
    /\ pc = "racing"
    /\ branches[i].state = "pending"
    /\ branches'[i].state = "fulfilled"

\* The attempt in progress fails in this step.
AttemptFailsNow == pc = "racing" /\ pc' \in {"backoff", "rejected"}

\* C1: in a race of two or more providers the first branch to fulfil decides
\* the result, whose service names its provider, and a rejection decides the
\* outcome only when no branch of the attempt can still fulfil: when the
\* attempt fails, every branch of it has rejected on its own (none was still
\* in flight, aborted or not).
C1_FirstFulfilmentWins ==
    [][Len(sortedProviders) >= 2 =>
        /\ \A i \in 1..Len(branches) : FulfilsNow(i) =>
              /\ pc' = "resolved"
              /\ call'.result = branches'[i].value
              /\ call'.result.service = ProviderName(branches'[i].provider)
        /\ AttemptFailsNow =>
              \A i \in 1..Len(branches') :
                 branches'[i].ctl = Len(controllers') =>
                    /\ branches'[i].state = "rejected"
                    /\ branches'[i].reason.kind # "AbortError"]_vars

\* C2: when an attempt has ended, its signal is aborted: every controller
\* but that of an attempt in progress is aborted, no provider timer of an
\* aborted signal is armed, and a fetcher that observes the signal has no
\* request of an aborted signal in flight.
C2_AbortOnSettle ==
    /\ \A c \in 1..Len(controllers) :
          (c < Len(controllers) \/ pc # "racing") => controllers[c]
    /\ \A i \in 1..Len(branches) :
          controllers[branches[i].ctl] =>
             /\ branches[i].timer # "armed"
             /\ options.fetcherObservesAbort => branches[i].fetch # "pending"

\* A single-provider lookup has settled and its signal is aborted; and a
\* race has been won while another request was in flight, which was aborted.
C2_Witness ==
    /\ pc = "resolved"
    /\ controllers # <<>>
    /\ \A c \in 1..Len(controllers) : controllers[c]
    /\ \E i \in Current : branches[i].reason.kind = "AbortError"

\* The primary branch of the attempt in progress (or of the latest attempt).
Primary == branches[CHOOSE i \in Current : branches[i].batch = 0]

\* The branches this step dispatches.
Dispatched == (Len(branches) + 1)..Len(branches')

\* This step starts an attempt.
AttemptStarts == Len(controllers') = Len(controllers) + 1

\* C3: an attempt starts by dispatching the primary, the first provider of
\* the priority order, and nothing else; a step that dispatches any other
\* provider happens when the primary is no longer pending or when at least
\* staggerDelay ms have passed since the attempt started; and once the primary
\* has fulfilled with the stagger timer not fired, the attempt has dispatched
\* the primary alone (the fetcher was called once).
C3_StaggerSafety ==
    [][/\ AttemptStarts =>
            /\ Len(branches') = Len(branches) + 1
            /\ branches'[Len(branches')].provider = Head(sortedProviders)
            /\ branches'[Len(branches')].batch = 0
            /\ branches'[Len(branches')].fetch = "pending"
       /\ (~AttemptStarts /\ Dispatched # {}) =>
            \/ Primary.state # "pending"
            \/ branches'[CHOOSE i \in Current : branches[i].batch = 0].state
                   # "pending"
            \/ now - Primary.start >= options.staggerDelay
       /\ (/\ controllers' # <<>>
           /\ staggerTimeout'.state # "fired"
           /\ \E i \in 1..Len(branches') :
                 /\ branches'[i].ctl = Len(controllers')
                 /\ branches'[i].batch = 0
                 /\ branches'[i].state = "fulfilled") =>
            Cardinality({i \in 1..Len(branches') :
                            branches'[i].ctl = Len(controllers')}) = 1]_vars

\* Three providers, a positive stagger delay: the primary fulfilled before the
\* timer fired, the lookup resolved with it, and the fetcher was called once.
C3_Witness ==
    /\ Len(sortedProviders) = 3
    /\ options.staggerDelay > 0
    /\ pc = "resolved"
    /\ staggerTimeout.state = "cleared"
    /\ Len(branches) = 1
    /\ branches[1].state = "fulfilled"
    /\ call.result.service = ProviderName(Head(sortedProviders))

\* The stagger timer fires in this step while the primary is pending.
TimerFiresNow ==
    /\ staggerTimeout.state = "armed"
    /\ staggerTimeout'.state = "fired"
    /\ Primary.state = "pending"

\* The primary rejects in this step, before the stagger timer has fired.
PrimaryRejectsEarly ==
    /\ pc = "racing"
    /\ staggerTimeout.state = "armed"
    /\ Primary.state = "pending"
    /\ branches'[CHOOSE i \in Current : branches[i].batch = 0].state
           = "rejected"

\* C4: when the stagger timer fires with the primary pending, or the primary
\* rejects before the timer has fired, that same step dispatches every
\* remaining provider, once each and in priority order, and the attempt goes
\* on; and a remaining provider that then fulfils first resolves the lookup.
C4_StaggerTrigger ==
    [][/\ (TimerFiresNow \/ PrimaryRejectsEarly) =>
            /\ pc' = "racing"
            /\ staggerTimeout'.state # "armed"
            /\ Len(branches') = Len(branches) + Len(call.otherProviders)
            /\ call.otherProviders = Tail(sortedProviders)
            /\ \A k \in 1..Len(call.otherProviders) :
                  /\ branches'[Len(branches) + k].provider
                         = call.otherProviders[k]
                  /\ branches'[Len(branches) + k].batch = 1
                  /\ branches'[Len(branches) + k].fetch = "pending"
                  /\ branches'[Len(branches) + k].start = now
                  /\ branches'[Len(branches) + k].ctl = Len(controllers)
       /\ \A i \in 1..Len(branches) :
            (FulfilsNow(i) /\ branches[i].batch > 0) =>
                /\ pc' = "resolved"
                /\ call'.result.service = ProviderName(branches[i].provider)
      ]_vars

\* The primary of three providers rejected before the stagger timer fired,
\* both others were dispatched at that moment, before the delay had passed,
\* and the lookup resolved with the last of them.
C4_Witness ==
    /\ Len(sortedProviders) = 3
    /\ pc = "resolved"
    /\ staggerTimeout.state = "cleared"
    /\ Len(branches) = 3
    /\ branches[1].state = "rejected"
    /\ branches[3].start < branches[1].start + options.staggerDelay
    /\ call.result.service = ProviderName(sortedProviders[3])

\* C8: with a single provider, a lookup that rejects after its last attempt
\* rejects with the very error its provider's branch rejected with (thrown by
\* the fetch, the transform or the timeout), never with an aggregate.
C8_SingleProviderError ==
    (Len(options.providers) = 1 /\ pc = "rejected" /\ controllers # <<>>) =>
        /\ call.error = Primary.reason
        /\ Primary.state = "rejected"
        /\ call.error.disp = Len(branches)
        /\ call.error.kind
              \in {"FetchError", "TransformError", "ProviderTimeoutError"}
        /\ call.error.errors = <<>>

\* A single provider, one retry: both attempts failed and the lookup rejected
\* with the timeout error of the second attempt's branch.
C8_Witness ==
    /\ Len(options.providers) = 1
    /\ pc = "rejected"
    /\ Len(controllers) = 2
    /\ call.error = ErrorOf("ProviderTimeoutError", 1, 2)

\* C9: with two or more providers, a lookup that rejects after its last
\* attempt rejects with AllProvidersFailedError whose errors list has one
\* entry per configured provider, entry k being the error the branch of the
\* k-th provider of the priority order rejected with.
C9_AggregateEnumeratesAll ==
    (Len(options.providers) >= 2 /\ pc = "rejected") =>
        /\ call.error.kind = "AllProvidersFailedError"
        /\ Len(call.error.errors) = Len(options.providers)
        /\ \A k \in 1..Len(call.error.errors) :
              \E i \in Current :
                 /\ branches[i].provider = sortedProviders[k]
                 /\ branches[i].state = "rejected"
                 /\ call.error.errors[k] = branches[i].reason

\* C10: a lookup makes at most 1 + retries attempts; an attempt after the
\* first starts only from the backoff that follows an attempt that failed as
\* a whole (it rejected, and its signal is aborted); an attempt that succeeds
\* resolves the lookup at once; and
\* an attempt that fails rejects the lookup exactly when it is the last one
\* (attempt index = retries), and leads to the backoff otherwise.
C10_RetryBudget ==
    [][/\ call'.attempt <= options.retries
       /\ (AttemptStarts /\ calls' = calls) =>
            /\ pc = "backoff" /\ pc' = "racing"
            /\ call.attempt >= 1
            /\ controllers[Len(controllers)]
            /\ call.lastError # NoError
            /\ call.result = NoAddress
       /\ (AttemptStarts /\ calls' # calls) => call'.attempt = 0
       /\ (\E i \in 1..Len(branches) : FulfilsNow(i)) => pc' = "resolved"
       /\ (pc = "racing" /\ pc' = "resolved") =>
            \E i \in 1..Len(branches) : FulfilsNow(i)
       /\ AttemptFailsNow =>
            IF call.attempt = options.retries
            THEN pc' = "rejected" /\ call'.attempt = call.attempt
            ELSE pc' = "backoff" /\ call'.attempt = call.attempt + 1
       /\ (pc # "rejected" /\ pc' = "rejected" /\ controllers' # <<>>
           /\ call'.error.kind \notin {"RateLimitError", "CepValidationError"})
            => call.attempt = options.retries /\ AttemptFailsNow]_vars

\* With retries = 1 the first attempt failed, the second one was started after
\* the backoff, and the lookup resolved in it.
C10_Witness ==
    /\ options.retries = 1
    /\ Len(controllers) = 2
    /\ call.attempt = 1
    /\ pc = "resolved"


(***************************************************************************)
(* The cache: lookups one after the other with an InMemoryCache, the user  *)
(* calling cache.clear() and cache.delete() between them.                  *)
(***************************************************************************)
Cep2 == <<"2", "0", "0", "0", "0", "0", "0", "0">>

CacheInputs == {Cep1, Hyphenated(Cep1), Cep2}

CacheKeys == {validateCep(input) : input \in CacheInputs}

CacheTtls == {Infinity, 1}

CacheMaxSizes == {Infinity, 1}

\* One or two providers without timeouts or retries; without a cache the
\* cache's parameters are unused.
CacheOptions ==
    {o \in
       {[providers |-> [i \in 1..n |-> i], timeout |-> [i \in 1..n |-> 0],
         staggerDelay |-> 0, retries |-> 0, retryDelay |-> 1,
         cache |-> c, ttl |-> ttl, maxSize |-> ms, hasRateLimit |-> FALSE,
         rateLimit |-> [requests |-> 0, per |-> 0],
         fetcherObservesAbort |-> oa,
         failureKinds |-> IF n = 1 THEN {"FetchError"} ELSE {}] :
           n \in 1..2, c \in BOOLEAN, ttl \in CacheTtls,
           ms \in CacheMaxSizes, oa \in BOOLEAN} :
        /\ ~o.cache => o.ttl = Infinity /\ o.maxSize = Infinity
        /\ Len(o.providers) = 2 => o.ttl = Infinity}

\* The user calls cache.clear() between two lookups.
CacheClearCall ==
    /\ options.cache
    /\ pc \in {"resolved", "rejected"}
    /\ cache # <<>>
    /\ cache' = CacheClear(cache)
    /\ call' = [call EXCEPT
                  !.destroyed = @ \cup {cache[i].key : i \in 1..Len(cache)}]
    /\ events' = <<>>
    /\ UNCHANGED <<options, sortedProviders, now, requestTimestamps, pc,
                   controllers, staggerTimeout, secondaryPromise, branches,
                   calls, admitted, bulk, warm, access>>

\* The user calls cache.delete(key) between two lookups.
CacheDeleteCall(key) ==
    /\ options.cache
    /\ pc \in {"resolved", "rejected"}
    /\ CacheHas(cache, key)
    /\ cache' = CacheDelete(cache, key)
    /\ call' = [call EXCEPT !.destroyed = @ \cup {key}]
    /\ events' = <<>>
    /\ UNCHANGED <<options, sortedProviders, now, requestTimestamps, pc,
                   controllers, staggerTimeout, secondaryPromise, branches,
                   calls, admitted, bulk, warm, access>>

InitCache == \E opts \in CacheOptions : InitWith(opts)

NextCache ==
    \/ calls < MaxCalls /\ \E input \in CacheInputs : LookupCall(input)
    \/ \E i \in 1..Len(branches) : FetchFulfils(i)
    \/ \E i \in 1..Len(branches) :
          \E kind \in options.failureKinds : FetchRejects(i, kind)
    \/ StaggerFires
    \/ CacheClearCall
    \/ \E key \in CacheKeys : CacheDeleteCall(key)
    \/ Tick

SpecCache == InitCache /\ [][NextCache]_vars

(***************************************************************************)
(* Claims about the cache.                                                 *)
(***************************************************************************)
\* A lookup() call is made in this step.
CallStarts == calls' = calls + 1

\* The dispatches made for the call of identity id.
DispatchesOf(bs, id) == {i \in 1..Len(bs) : bs[i].call = id}

\* The call before this step's resolved through the provider race for the
\* CEP this step's call asks for, and since then the user neither cleared the
\* cache nor deleted the key, and less than the ttl has passed.
SameCepStillCached ==
    /\ CallStarts
    /\ options.cache
    /\ pc = "resolved" /\ ~call.hit
    /\ cepRegexTest(call'.input)
    /\ validateCep(call'.input) = call.cep
    /\ call.cep \notin call.destroyed
    /\ options.ttl # Infinity => now - call.settledAt <= options.ttl

\* C5: with a cache, the second of two successive lookup() calls for the same
\* CEP (hyphenated or not), with no clear, delete or expiry in between,
\* resolves from the cache: it dispatches to no provider and emits cache:hit
\* exactly once, with the normalized CEP; the first call emitted no cache:hit,
\* and with a single provider the two calls made one dispatch in total.
C5_CacheIdempotence ==
    [][SameCepStillCached =>
         /\ pc' = "resolved"
         /\ call'.hit
         /\ DispatchesOf(branches', call'.id) = {}
         /\ controllers' = controllers
         /\ Len(events') = 1
         /\ events'[1].name = "cache:hit"
         /\ events'[1].cep = call.cep
         /\ ~(\E k \in 1..Len(call.cep) : call.cep[k] = "-")
         /\ call'.cacheHits = 1
         /\ call.cacheHits = 0
         /\ Len(sortedProviders) = 1 =>
               Cardinality(DispatchesOf(branches', call.id)) = 1]_vars

\* The cached entry of the CEP this step's call asks for was destroyed after
\* the call before resolved for it (the user cleared the cache or deleted the
\* key, or more than the ttl has passed), or no cache is configured.
EntryDestroyed ==
    /\ CallStarts
    /\ cepRegexTest(call'.input)
    /\ \/ ~options.cache
       \/ /\ pc = "resolved"
          /\ validateCep(call'.input) = call.cep
          /\ \/ call.cep \in call.destroyed
             \/ options.ttl # Infinity /\ now - call.settledAt > options.ttl

\* C6: once the cached entry of a CEP is destroyed (cache.clear(), delete of
\* the key, or ttl expiry), or when no cache is configured, the next lookup
\* for that CEP dispatches to the providers again: it is not served from the
\* cache.
C6_DestroyedEntryRefetched ==
    [][EntryDestroyed =>
         /\ pc' = "racing"
         /\ ~call'.hit
         /\ DispatchesOf(branches', call'.id) # {}
         /\ \A k \in 1..Len(events') : events'[k].name # "cache:hit"]_vars

(***************************************************************************)
(* The rate limiter: lookups one after the other on a single provider.     *)
(***************************************************************************)
\* An input validateCep rejects.
BadCep == <<"1", "2">>

RateInputs == {Cep1, BadCep}

RateRequests == {1, 2}

RatePers == {1, 2}

RateOptions ==
    {[providers |-> <<1>>, timeout |-> <<0>>, staggerDelay |-> 0,
      retries |-> 0, retryDelay |-> 1, cache |-> FALSE, ttl |-> Infinity,
      maxSize |-> Infinity, hasRateLimit |-> TRUE,
      rateLimit |-> [requests |-> r, per |-> per],
      fetcherObservesAbort |-> FALSE, failureKinds |-> {"FetchError"}] :
        r \in RateRequests, per \in RatePers}

InitRate == \E opts \in RateOptions : InitWith(opts)

NextRate ==
    \/ calls < MaxRateCalls /\ \E input \in RateInputs : LookupCall(input)
    \/ \E i \in 1..Len(branches) : FetchFulfils(i)
    \/ \E i \in 1..Len(branches) :
          \E kind \in options.failureKinds : FetchRejects(i, kind)
    \/ Tick

SpecRate == InitRate /\ [][NextRate]_vars

(***************************************************************************)
(* Claims about the rate limiter.                                          *)
(***************************************************************************)
\* The number of calls admitted in the window of `per` ms that ends at t.
AdmittedInWindow(t) ==
    Cardinality({k \in 1..Len(admitted) :
                    /\ admitted[k] > t - options.rateLimit.per
                    /\ admitted[k] <= t})

\* C7: with rateLimit {requests: N, per: P}, after any sequence of lookup
\* calls no more than N calls were admitted within any window of P ms; the
\* call that would be the (N+1)-th inside the window rejects with
\* RateLimitError and is not admitted, and a call that finds fewer than N
\* admitted calls in the window that ends with it is admitted.
C7_RateLimitWindow ==
    /\ [](\A t \in 0..now : AdmittedInWindow(t) <= options.rateLimit.requests)
    /\ [][CallStarts =>
            IF AdmittedInWindow(now) >= options.rateLimit.requests
            THEN /\ pc' = "rejected"
                 /\ call'.error = RateLimitError
                 /\ admitted' = admitted
                 /\ DispatchesOf(branches', call'.id) = {}
            ELSE /\ admitted' = Append(admitted, now)
                 /\ call'.error # RateLimitError]_vars

\* A call was rejected with RateLimitError and, the window having passed, the
\* call after it is admitted and dispatched.
C7_Witness ==
    /\ options.hasRateLimit
    /\ call.prev.error = "RateLimitError"
    /\ pc = "racing"
    /\ Len(admitted) = options.rateLimit.requests + 1
    /\ admitted[Len(admitted)] = now


(***************************************************************************)
(* Claims about provider timeouts.                                         *)
(***************************************************************************)
\* The timeout timer of branch i fires in this step while its fetch has not
\* settled.
TimesOutNow(i) ==
    /\ i \in 1..Len(branches)
    /\ branches[i].timer = "armed"
    /\ branches[i].fetch = "pending"
    /\ branches'[i].timer = "fired"

\* The failure events this step emits for dispatch i.
FailuresNow(i) ==
    {k \in 1..Len(events') :
        events'[k].name = "failure" /\ events'[k].disp = i}

\* Branch i was rejected by its timeout.
TimedOut(i) ==
    /\ branches[i].state = "rejected"
    /\ branches[i].reason.kind = "ProviderTimeoutError"

\* C11: when the timeout of a provider elapses before its fetch has settled,
\* the branch rejects with the ProviderTimeoutError of that provider and one
\* failure event is emitted for it, carrying that error; and a branch that
\* timed out has exactly one failure event ever: the later abort or failure
\* of its fetch emits no second one.
C11_TimeoutSingleFailure ==
    /\ [][\A i \in 1..Len(branches) : TimesOutNow(i) =>
            /\ branches'[i].state = "rejected"
            /\ branches'[i].reason =
                  ErrorOf("ProviderTimeoutError", branches[i].provider, i)
            /\ Cardinality(FailuresNow(i)) = 1
            /\ \A k \in FailuresNow(i) :
                  events'[k].error = branches'[i].reason]_vars
    /\ [](\A i \in 1..Len(branches) : TimedOut(i) => branches[i].failures = 1)


(***************************************************************************)
(* Validation: after a first lookup of a valid CEP, a lookup of any string *)
(* of at most MaxLen characters, within MaxValidateTime ms.  After the     *)
(* second call time passes only while a retry is waiting.                  *)
(***************************************************************************)
\* A digit, the hyphen and a character that is neither.
Alphabet == {"0", "-", " "}

Letters == <<"a", "b", "c", "d", "e", "f", "g", "h">>

\* Every string over the alphabet, and a few inputs with other characters.
AllInputs ==
    UNION {[1..n -> Alphabet] : n \in 0..MaxLen}
        \cup {Cep1, Hyphenated(Cep1), Cep2, Hyphenated(Cep2), Letters}

\* A single provider, a cache and one retry, with and without a limiter of
\* one call per 2 ms.
ValidateOptions ==
    {[providers |-> <<1>>, timeout |-> <<0>>, staggerDelay |-> 0,
      retries |-> 1, retryDelay |-> 1, cache |-> TRUE, ttl |-> Infinity,
      maxSize |-> Infinity, hasRateLimit |-> rl,
      rateLimit |-> [requests |-> 1, per |-> 2],
      fetcherObservesAbort |-> FALSE, failureKinds |-> {"FetchError"}] :
        rl \in BOOLEAN}

InitValidate == \E opts \in ValidateOptions : InitWith(opts)

NextValidate ==
    \/ calls = 0 /\ LookupCall(Cep1)
    \/ calls = 1 /\ \E input \in AllInputs : LookupCall(input)
    \/ \E i \in 1..Len(branches) : FetchFulfils(i)
    \/ \E i \in 1..Len(branches) :
          \E kind \in options.failureKinds : FetchRejects(i, kind)
    \/ RetryFires
    \/ now < MaxValidateTime /\ (calls < 2 \/ pc = "backoff") /\ Tick

SpecValidate == InitValidate /\ [][NextValidate]_vars


(***************************************************************************)
(* Claims about validation.                                                *)
(***************************************************************************)
\* Exactly 8 digits.
EightDigits(s) ==
    /\ Len(s) = 8
    /\ \A i \in 1..8 :
          s[i] \in {"0", "1", "2", "3", "4", "5", "6", "7", "8", "9"}

\* Exactly 8 digits, or exactly 5 digits, a hyphen and 3 digits.
ValidShape(s) ==
    \/ EightDigits(s)
    \/ /\ Len(s) = 9
       /\ s[6] = "-"
       /\ EightDigits([i \in 1..8 |-> IF i <= 5 THEN s[i] ELSE s[i + 1]])

\* The characters of s that are not hyphens, in order.
WithoutHyphens(s) == SelectSeq([i \in 1..Len(s) |-> s[i]], LAMBDA c : c # "-")

\* This step's call gets past the rate limiter (the first step of lookup).
PassesLimiter == CallStarts /\ (options.hasRateLimit => admitted' # admitted)

\* C12: for every input that is exactly 8 digits, or 5 digits, a hyphen and
\* 3 digits, validation succeeds and yields the 8 digits of the input, the
\* same with and without the hyphen; that 8-digit form is the key of every
\* cache entry, the cep of every event and the cep every dispatch is built
\* with.
C12_CanonicalCep ==
    /\ [][(PassesLimiter /\ ValidShape(call'.input)) =>
            /\ call'.error = NoError
            /\ call'.cep = WithoutHyphens(call'.input)
            /\ EightDigits(call'.cep)
            /\ pc' \in {"racing", "resolved"}
            /\ pc' = "racing" => DispatchesOf(branches', call'.id) # {}
            /\ pc' = "resolved" => CacheHas(cache, call'.cep)
            /\ \A i \in DispatchesOf(branches', call'.id) :
                  branches'[i].cep = call'.cep
            /\ \A k \in 1..Len(events') : events'[k].cep = call'.cep]_vars
    /\ [](/\ \A i \in 1..Len(cache) : EightDigits(cache[i].key)
          /\ \A i \in 1..Len(branches) : EightDigits(branches[i].cep)
          /\ \A k \in 1..Len(events) : EightDigits(events[k].cep)
          /\ (pc = "resolved" /\ ~call.hit) => CacheHas(cache, call.cep))

\* A CEP looked up without its hyphen was cached, and the lookup of the same
\* CEP with its hyphen was served from that entry.
C12_Witness ==
    /\ calls = 2
    /\ call.input = Hyphenated(Cep1)
    /\ call.hit
    /\ call.cep = Cep1
    /\ \E k \in 1..Len(events) :
          events[k].name = "cache:hit" /\ events[k].cep = Cep1

\* C13: for every input of any other shape, a lookup that gets past the rate
\* limiter rejects with CepValidationError in the call itself: no provider is
\* dispatched, the cache is left as it was, no event is emitted, and the call
\* is never retried, whatever retries is.
C13_InvalidRejected ==
    /\ [][(PassesLimiter /\ ~ValidShape(call'.input)) =>
            /\ pc' = "rejected"
            /\ call'.error = CepValidationError
            /\ branches' = branches
            /\ controllers' = controllers
            /\ cache' = cache
            /\ events' = <<>>]_vars
    /\ [](call.error = CepValidationError =>
            /\ pc = "rejected"
            /\ call.attempt = 0
            /\ DispatchesOf(branches, call.id) = {})

\* With one retry configured and an entry in the cache, an input with two
\* hyphens was rejected with CepValidationError.
C13_Witness ==
    /\ options.retries = 1
    /\ cache # <<>>
    /\ pc = "rejected"
    /\ call.error = CepValidationError
    /\ Len(call.input) = 9
    /\ call.input[6] = "-" /\ call.input[5] = "-"


(***************************************************************************)
(* The bulk lookup: one lookupCeps call on a fresh instance.               *)
(***************************************************************************)
BulkInputs == {Cep1, Hyphenated(Cep2), BadCep}

BulkCeps == UNION {[1..n -> BulkInputs] : n \in 0..MaxCeps}

\* Integers below, equal to and above the input length.
Concurrencies == -1..MaxConcurrency

\* One or two providers, with and without a limiter of two calls per 2 ms.
BulkOptions ==
    {[providers |-> [i \in 1..n |-> i], timeout |-> [i \in 1..n |-> 0],
      staggerDelay |-> 0, retries |-> 0, retryDelay |-> 1, cache |-> FALSE,
      ttl |-> Infinity, maxSize |-> Infinity, hasRateLimit |-> rl,
      rateLimit |-> [requests |-> 2, per |-> 2],
      fetcherObservesAbort |-> FALSE, failureKinds |-> {"FetchError"}] :
        n \in 1..2, rl \in BOOLEAN}

InitBulk == \E opts \in BulkOptions : InitWith(opts)

NextBulk ==
    \/ \E ceps \in BulkCeps, concurrency \in Concurrencies :
          LookupCepsCall(ceps, concurrency)
    \/ \E j \in 1..Len(bulk.lookups), p \in 1..Len(sortedProviders) :
          BulkLookupResolves(j, p)
    \/ \E j \in 1..Len(bulk.lookups) : BulkLookupRejects(j)
    \/ bulk.state = "running" /\ Tick

SpecBulk == InitBulk /\ [][NextBulk]_vars


(***************************************************************************)
(* Claims about lookupCeps.                                                *)
(***************************************************************************)
\* The lookups made for index i of the input (counted from 0).
LookupsOf(i) == {j \in 1..Len(bulk.lookups) : bulk.lookups[j].index = i}

\* The lookups that have not settled.
InFlight == {j \in 1..Len(bulk.lookups) : bulk.lookups[j].state = "pending"}

\* C14: lookupCeps with concurrency >= 1 returns exactly one result per input
\* CEP, in input order: result i carries the i-th input string as given,
\* whatever order the lookups completed in.
C14_InputOrder ==
    (bulk.state = "resolved" /\ bulk.concurrency >= 1) =>
        /\ Len(bulk.returned) = Len(bulk.ceps)
        /\ \A i \in 1..Len(bulk.ceps) : bulk.returned[i].cep = bulk.ceps[i]

\* Three inputs, the first of them not the first to complete, and a
\* hyphenated input that was found.
C14_Witness ==
    /\ bulk.state = "resolved"
    /\ bulk.concurrency >= 2
    /\ Len(bulk.ceps) = 3
    /\ bulk.ceps[1] # bulk.ceps[2]
    /\ bulk.order[1] # 0
    /\ \E i \in 1..3 : /\ bulk.returned[i].kind = "success"
                       /\ bulk.returned[i].cep = Hyphenated(Cep2)

\* C15: during lookupCeps(ceps, c) at most c lookups are in flight at any
\* instant: there are at most min(c, ceps.length) workers (none when c is
\* negative), and each of them awaits one lookup at a time.
C15_BoundedConcurrency ==
    LET c == Max(bulk.concurrency, 0)
    IN /\ Len(bulk.workers) <= c
       /\ Len(bulk.workers) <= Len(bulk.ceps)
       /\ bulk.maxInFlight <= c
       /\ Cardinality(InFlight) <= c
       /\ \A j \in InFlight :
             /\ bulk.workers[bulk.lookups[j].worker].state = "awaiting"
             /\ bulk.workers[bulk.lookups[j].worker].lookup = j

\* Two workers for three inputs: both await a lookup, one of them its second.
C15_Witness ==
    /\ bulk.state = "running"
    /\ bulk.concurrency = 2
    /\ Len(bulk.ceps) = 3
    /\ Len(bulk.lookups) = 3
    /\ Cardinality(InFlight) = 2

\* C16: lookupCeps calls lookup exactly once for every input index, so the
\* number of lookup calls equals the input length whatever the concurrency
\* is; empty input returns [] with zero calls.
C16_OneLookupPerIndex ==
    /\ \A i \in 0..(Len(bulk.ceps) - 1) : Cardinality(LookupsOf(i)) <= 1
    /\ bulk.state = "resolved" =>
          /\ \A i \in 0..(Len(bulk.ceps) - 1) : Cardinality(LookupsOf(i)) = 1
          /\ Len(bulk.lookups) = Len(bulk.ceps)
          /\ calls = Len(bulk.ceps)
          /\ Len(bulk.ceps) = 0 => bulk.returned = <<>>

\* The lookup whose outcome the entry of index i records.
LookupOf(i) == bulk.lookups[CHOOSE j \in LookupsOf(i) : TRUE]

\* An entry as the worker must have written it for index i.
WellFormed(r, i) ==
    /\ (r.data # NoAddress) # (r.error # NoError)
    /\ LookupsOf(i) # {}
    /\ r.data # NoAddress =>
          /\ LookupOf(i).state = "resolved"
          /\ r.data = LookupOf(i).value
          /\ r.provider = r.data.service
    /\ r.data = NoAddress =>
          /\ LookupOf(i).state = "rejected"
          /\ r.error = LookupOf(i).error

SomeItemFailed ==
    \E j \in 1..Len(bulk.lookups) : bulk.lookups[j].state = "rejected"

\* C18: a failing item never aborts sibling work: lookupCeps never rejects,
\* every other index is still looked up and has its entry, and lookupCeps
\* resolves once every item's lookup has settled, not before.
C18_FailureIsolated ==
    /\ bulk.state # "rejected"
    /\ (bulk.state = "running" /\ SomeItemFailed) => InFlight # {}
    /\ (bulk.state = "resolved" /\ SomeItemFailed) =>
          /\ InFlight = {}
          /\ \A i \in 0..(Len(bulk.ceps) - 1) : LookupsOf(i) # {}
          /\ \A i \in 1..Len(bulk.ceps) : bulk.results[i].kind # "hole"

\* One worker: the first input is invalid, the second is found after it, the
\* third is refused by the rate limiter.
C18_Witness ==
    /\ bulk.state = "resolved"
    /\ bulk.concurrency = 1
    /\ Len(bulk.ceps) = 3
    /\ bulk.results[1].error = CepValidationError
    /\ bulk.results[2].kind = "success"
    /\ bulk.results[3].error = RateLimitError


(***************************************************************************)
(* The ranker: one warmup() on a fresh instance, then a lookup.            *)
(***************************************************************************)
\* Two or three providers, a stagger delay of 1 ms, no timeouts, no retries.
WarmOptions ==
    {[providers |-> [i \in 1..n |-> i], timeout |-> [i \in 1..n |-> 0],
      staggerDelay |-> 1, retries |-> 0, retryDelay |-> 1, cache |-> FALSE,
      ttl |-> Infinity, maxSize |-> Infinity, hasRateLimit |-> FALSE,
      rateLimit |-> [requests |-> 1, per |-> 1],
      fetcherObservesAbort |-> TRUE, failureKinds |-> {"FetchError"}] :
        n \in 2..MaxProviders}

InitWarm == \E opts \in WarmOptions : InitWith(opts)

NextWarm ==
    \/ WarmupCall
    \/ \E i \in 1..Len(warm.probes) : ProbeFulfils(i)
    \/ \E i \in 1..Len(warm.probes) : ProbeRejects(i)
    \/ warm.state = "resolved" /\ calls < MaxRaceCalls /\ LookupCall(Cep1)
    \/ \E i \in 1..Len(branches) : FetchFulfils(i)
    \/ \E i \in 1..Len(branches) : FetchRejects(i, "FetchError")
    \/ StaggerFires
    \/ Tick

SpecWarm == InitWarm /\ [][NextWarm]_vars

\* The probe of provider p.
ProbeOf(p) ==
    warm.probes[CHOOSE i \in 1..Len(warm.probes) : warm.probes[i].provider = p]

\* C19: warmup probes every configured provider with the control CEP
\* 01001000 and, once all probes have settled and not before, replaces the
\* priority order with a permutation of the configured providers in ascending
\* order of measured duration, every provider whose probe failed behind
\* every provider whose probe succeeded; it returns that order, and the next
\* lookup dispatches the first element of it as primary.
C19_WarmupRanks ==
    LET n == Len(options.providers)
    IN /\ warm.state = "running" =>
             /\ sortedProviders = options.providers
             /\ \E i \in 1..n : warm.probes[i].state = "pending"
       /\ warm.state # "idle" =>
             /\ Len(warm.probes) = n
             /\ \A i \in 1..n : /\ warm.probes[i].provider = options.providers[i]
                                /\ warm.probes[i].cep = Cep1
       /\ warm.state = "resolved" =>
             /\ \A i \in 1..n : warm.probes[i].state = "settled"
             /\ Len(sortedProviders) = n
             /\ \A i \in 1..n : \E j \in 1..n :
                   sortedProviders[j] = options.providers[i]
             /\ \A i, j \in 1..n :
                   i < j =>
                      /\ ProbeOf(sortedProviders[i]).duration
                            <= ProbeOf(sortedProviders[j]).duration
                      /\ ProbeOf(sortedProviders[i]).error
                            => ProbeOf(sortedProviders[j]).error
             /\ \A i \in 1..n :
                   ~ProbeOf(sortedProviders[i]).error =>
                      ProbeOf(sortedProviders[i]).duration < Infinity
             /\ warm.returned = sortedProviders
             /\ \A i \in 1..Len(branches) :
                   branches[i].batch = 0 =>
                      branches[i].provider = sortedProviders[1]

\* The warmup moved the configured first provider, whose probe failed, behind
\* one whose probe succeeded, and the lookup after it dispatched the new first.
C19_Witness ==
    /\ warm.state = "resolved"
    /\ sortedProviders[1] # options.providers[1]
    /\ ProbeOf(options.providers[1]).error
    /\ ~ProbeOf(sortedProviders[1]).error
    /\ ProbeOf(sortedProviders[1]).duration > 0
    /\ Len(branches) >= 1
    /\ branches[1].provider = sortedProviders[1]


(***************************************************************************)
(* The InMemoryCache used directly: set, get, has, and the clock.          *)
(***************************************************************************)
\* What an access remembers of the Map before it.
Before(op, key) ==
    [NoAccess EXCEPT
       !.op = op,
       !.key = key,
       !.held = CacheHas(cache, key),
       !.entry = IF CacheHas(cache, key) THEN CacheGetValue(cache, key)
                 ELSE NoAddress,
       !.age = IF CacheHas(cache, key)
               THEN now - cache[CacheIndex(cache, key)].timestamp ELSE 0,
       !.holds = CacheHas(CacheAfterGet(cache, key, options.ttl, now), key),
       !.size = Len(cache)]

\* cache.set(key, value)
SetCall(key, value) ==
    /\ cache' = CacheSet(cache, key, value, options.maxSize, now)
    /\ access' = [Before("set", key) EXCEPT !.value = value, !.holds = TRUE]
    /\ events' = <<>>
    /\ UNCHANGED <<options, sortedProviders, now, requestTimestamps, pc, call,
                   controllers, staggerTimeout, secondaryPromise, branches,
                   calls, admitted, bulk, warm>>

\* cache.get(key)
GetCall(key) ==
    /\ access' = [Before("get", key) EXCEPT
                    !.found = CacheGetHit(cache, key, options.ttl, now),
                    !.value = IF CacheGetHit(cache, key, options.ttl, now)
                              THEN CacheGetValue(cache, key) ELSE NoAddress]
    /\ cache' = CacheAfterGet(cache, key, options.ttl, now)
    /\ events' = <<>>
    /\ UNCHANGED <<options, sortedProviders, now, requestTimestamps, pc, call,
                   controllers, staggerTimeout, secondaryPromise, branches,
                   calls, admitted, bulk, warm>>

\* cache.has(key)
HasCall(key) ==
    /\ access' = [Before("has", key) EXCEPT
                    !.found = InMemoryCacheHas(cache, key, options.ttl, now)]
    /\ cache' = CacheAfterGet(cache, key, options.ttl, now)
    /\ events' = <<>>
    /\ UNCHANGED <<options, sortedProviders, now, requestTimestamps, pc, call,
                   controllers, staggerTimeout, secondaryPromise, branches,
                   calls, admitted, bulk, warm>>

\* jest.advanceTimersByTime(1): a millisecond passes, and nothing runs.
advanceTimersByTime ==
    /\ now < MaxTime
    /\ now' = now + 1
    /\ events' = <<>>
    /\ UNCHANGED <<options, sortedProviders, requestTimestamps, cache, pc,
                   call, controllers, staggerTimeout, secondaryPromise,
                   branches, calls, admitted, bulk, warm, access>>

TtlKeys == {Cep1, Cep2}

\* Two Addresses for one CEP, to tell a stored value from another.
TtlValues(key) ==
    {sanitizeAddress(transform(p, RawResponse(p, key))) : p \in 1..2}

\* No ttl, and ttls of 0, 1 and 2 ms; no size limit, and a limit of 1.
TtlOptions ==
    {[providers |-> <<1>>, timeout |-> <<0>>, staggerDelay |-> 0,
      retries |-> 0, retryDelay |-> 1, cache |-> TRUE, ttl |-> ttl,
      maxSize |-> maxSize, hasRateLimit |-> FALSE,
      rateLimit |-> [requests |-> 1, per |-> 1],
      fetcherObservesAbort |-> TRUE, failureKinds |-> {}] :
        ttl \in {Infinity, 0, 1, 2}, maxSize \in {Infinity, 1}}

InitTtl == \E opts \in TtlOptions : InitWith(opts)

NextTtl ==
    \/ \E key \in TtlKeys : \E value \in TtlValues(key) : SetCall(key, value)
    \/ \E key \in TtlKeys : GetCall(key)
    \/ \E key \in TtlKeys : HasCall(key)
    \/ advanceTimersByTime

SpecTtl == InitTtl /\ [][NextTtl]_vars

\* The last access found an entry and its age was within the ttl.
AccessedFresh ==
    /\ access.op \in {"get", "has"}
    /\ access.held
    /\ (options.ttl = Infinity \/ access.age <= options.ttl)

\* The last access found an entry older than the ttl.
AccessedStale ==
    /\ access.op \in {"get", "has"}
    /\ access.held
    /\ options.ttl # Infinity
    /\ access.age > options.ttl

\* C20: with ttl T, get returns the stored value and has returns true while
\* the entry's age is within T; once the age exceeds T, get returns undefined
\* and has returns false, and that access removes the entry; nothing but an
\* access removes an expired entry (no sweeper); with no ttl entries never
\* expire.
C20_LazyTtl ==
    /\ [](AccessedFresh =>
             /\ access.found
             /\ access.op = "get" => access.value = access.entry
             /\ access.holds)
    /\ [](AccessedStale =>
             /\ ~access.found
             /\ access.value = NoAddress
             /\ ~access.holds)
    /\ [][/\ (access' # access /\ AccessedFresh') =>
                CacheHas(cache', access'.key) /\ cache' = cache
          /\ (access' # access /\ AccessedStale') =>
                /\ ~CacheHas(cache', access'.key)
                /\ cache' = MapDelete(cache, access'.key)
          /\ now' # now => cache' = cache]_vars

\* A get found an entry one millisecond too old and removed it, after time
\* had passed with the expired entry still in the Map.
C20_Witness ==
    /\ access.op = "get"
    /\ AccessedStale
    /\ access.age = options.ttl + 2
    /\ ~access.found
    /\ ~CacheHas(cache, access.key)


(***************************************************************************)
(* The InMemoryCache with a size limit: three keys, a limit of 1 or 2.     *)
(***************************************************************************)
SizeKeys == {<<"a">>, <<"b">>, <<"c">>}

\* mockAddress and mockAddress2
SizeValues == TtlValues(Cep1)

\* A limit of 1 or 2 entries, with no ttl and with a ttl of 1 ms.
SizeOptions ==
    {[providers |-> <<1>>, timeout |-> <<0>>, staggerDelay |-> 0,
      retries |-> 0, retryDelay |-> 1, cache |-> TRUE, ttl |-> ttl,
      maxSize |-> maxSize, hasRateLimit |-> FALSE,
      rateLimit |-> [requests |-> 1, per |-> 1],
      fetcherObservesAbort |-> TRUE, failureKinds |-> {}] :
        ttl \in {Infinity, 1}, maxSize \in 1..MaxSize}

InitSize == \E opts \in SizeOptions : InitWith(opts)

NextSize ==
    \/ \E key \in SizeKeys : \E value \in SizeValues : SetCall(key, value)
    \/ \E key \in SizeKeys : GetCall(key)
    \/ \E key \in SizeKeys : HasCall(key)
    \/ now < MaxSizeTime /\ advanceTimersByTime

SpecSize == InitSize /\ [][NextSize]_vars

\* The keys of a Map, in insertion order.
KeysOf(c) == [i \in 1..Len(c) |-> c[i].key]

\* C21: with maxSize M, set of a new key when the cache holds M entries
\* evicts exactly one entry, the oldest-inserted one, and then stores the new
\* key; get and has never change which entry is evicted next: they leave the
\* insertion order as it is, removing at most the expired entry they touch.
C21_EvictsOldestInserted ==
    /\ [](\A i, j \in 1..Len(cache) :
             i < j => cache[i].timestamp <= cache[j].timestamp)
    /\ [](Len(cache) <= options.maxSize)
    /\ [][\A key \in SizeKeys :
             /\ \A value \in SizeValues :
                   (/\ SetCall(key, value)
                    /\ ~CacheHas(cache, key)
                    /\ Len(cache) = options.maxSize) =>
                      /\ Len(cache') = options.maxSize
                      /\ KeysOf(cache') = Append(Tail(KeysOf(cache)), key)
                      /\ SubSeq(cache', 1, Len(cache') - 1) = Tail(cache)
                      /\ cache'[Len(cache')].value = value
             /\ (GetCall(key) \/ HasCall(key)) =>
                   \/ cache' = cache
                   \/ /\ access'.held
                      /\ options.ttl # Infinity
                      /\ access'.age > options.ttl
                      /\ cache' = MapDelete(cache, key)]_vars

\* A set of a third key into a full cache of two.
C21_Witness ==
    /\ access.op = "set"
    /\ ~access.held
    /\ options.maxSize = 2
    /\ access.size = 2
    /\ Len(cache) = 2
    /\ cache[2].key = access.key
    /\ cache[1].timestamp < cache[2].timestamp

\* The entries of c under the keys other than key.
Others(c, key) == SelectSeq(c, LAMBDA e : e.key # key)

\* C22: set on a key that is already present replaces its value without
\* evicting any other entry, even when the cache is at maxSize: every other
\* key present before the call is present, with its value, after it.
C22_OverwriteKeepsOthers ==
    [][\A key \in SizeKeys : \A value \in SizeValues :
          (SetCall(key, value) /\ CacheHas(cache, key)) =>
             /\ Others(cache', key) = Others(cache, key)
             /\ CacheHas(cache', key)
             /\ CacheGetValue(cache', key) = value
             /\ Len(cache') = Len(cache)]_vars

\* A set of a key held by a full cache of two, with another value.
C22_Witness ==
    /\ access.op = "set"
    /\ access.held
    /\ options.maxSize = 2
    /\ access.size = 2
    /\ access.entry # access.value
    /\ Len(cache) = 2
    /\ CacheGetValue(cache, access.key) = access.value


(***************************************************************************)
(* Claims about the Address a lookup produces.                             *)
(***************************************************************************)
\* A string without leading or trailing whitespace.
Trimmed(s) == s = <<>> \/ (s[1] \notin Whitespace /\ s[Len(s)] \notin Whitespace)

TrimmedAddress(a) == Trimmed(a.cep) /\ Trimmed(a.street)

\* The success events of the task that has just run.
SuccessEvents == {i \in 1..Len(events) : events[i].name = "success"}

\* C23: every Address that lookup returns, stores in the cache or passes in a
\* success event has its string fields trimmed, whatever the provider's
\* transform returned.
C23_AddressTrimmed ==
    /\ pc = "resolved" => TrimmedAddress(call.result)
    /\ \A i \in 1..Len(cache) : TrimmedAddress(cache[i].value)
    /\ \A i \in SuccessEvents : TrimmedAddress(events[i].address)

\* ViaCEP, whose response is padded, has just won: the lookup resolved with
\* its Address, which the success event carries and the cache holds.
C23_Witness ==
    /\ pc = "resolved"
    /\ ~call.hit
    /\ call.result.service = "ViaCEP"
    /\ call.result.street = <<"S", "e">>
    /\ \E i \in SuccessEvents : events[i].address = call.result
    /\ CacheHas(cache, call.cep)
    /\ CacheGetValue(cache, call.cep) = call.result

\* C24: every Address returned by lookup or stored in the cache has cep in
\* the 8-digit form with the hyphen stripped, equal to the normalized input
\* CEP, whatever form the provider's response carried.
C24_CepNormalized ==
    /\ pc = "resolved" =>
          EightDigits(call.result.cep) /\ call.result.cep = call.cep
    /\ \A i \in 1..Len(cache) :
          EightDigits(cache[i].value.cep) /\ cache[i].value.cep = cache[i].key

\* The provider an Address names as its service.
ProviderOf(a) == CHOOSE p \in 1..Len(ProviderNames) : ProviderName(p) = a.service

\* What the service of the Address's provider answered for the CEP.
ResponseOf(a, c) == RawResponse(ProviderOf(a), c)

\* C28: the Address a lookup returns has the ddd and the ibge the provider's
\* response supplied, unchanged, and where the response supplied no ddd it
\* has the ddd the table of the 27 federal units gives for its state, two
\* digits.
C28_DddFilled ==
    pc = "resolved" =>
        LET a == call.result
            r == ResponseOf(a, call.cep)
        IN  /\ a.ibge = r.ibge
            /\ a.ddd = IF r.ddd = Undefined THEN dddByState[a.state]
                                             ELSE r.ddd
            /\ Len(a.ddd) = 2 /\ IsDigits(a.ddd, 1, 2)



(***************************************************************************)
(* Claims about the events of the race.                                    *)
(***************************************************************************)
\* The lookup resolves through the provider race in this step.
ResolvesNow == pc = "racing" /\ pc' = "resolved"

\* The success events this step emits.
SuccessesNow == {k \in 1..Len(events') : events'[k].name = "success"}

\* C25: a lookup that resolves through the provider race emits success
\* exactly once, with the winning provider's name, the normalized CEP and the
\* returned Address; the providers that lose the race emit no success event
\* for that lookup.
C25_SuccessOnce ==
    /\ [][ResolvesNow =>
            /\ Cardinality(SuccessesNow) = 1
            /\ \A k \in SuccessesNow :
                  /\ ProviderName(events'[k].provider) = call'.result.service
                  /\ events'[k].cep = call'.cep
                  /\ events'[k].address = call'.result]_vars
    /\ []((pc = "resolved" /\ ~call.hit) => call.successes = 1)

\* The kinds of error with which a provider fails by itself.
OwnFailures == {"FetchError", "TransformError", "ProviderTimeoutError"}

\* C26: each provider dispatch emits at most one failure event, and only when
\* that provider itself failed (fetch error, transform error or timeout): a
\* request cancelled through the abort signal emits no failure, and a
\* dispatch never emits both success and failure.
C26_FailureAtMostOnce ==
    /\ [][\A k \in 1..Len(events') :
             events'[k].name = "failure" =>
                /\ events'[k].error.kind \in OwnFailures
                /\ events'[k].error.provider = events'[k].provider
                /\ events'[k].error.disp = events'[k].disp]_vars
    /\ [](\A i \in 1..Len(branches) :
             /\ branches[i].failures <= 1
             /\ ~(branches[i].successes >= 1 /\ branches[i].failures >= 1))


(***************************************************************************)
(* The race of a slow and a fast provider: the fetcher answers for the     *)
(* fast provider after FastLatency and for ViaCEP after twice as long      *)
(* (50 ms and 100 ms, in units of 25 ms).                                  *)
(***************************************************************************)
FastLatency == MaxTime \div 2

SlowLatency == FastLatency * 2

Latency(p) == IF ProviderName(p) = "ViaCEP" THEN SlowLatency ELSE FastLatency

\* The gap between the two latencies.
Gap == SlowLatency - FastLatency

\* The slow provider and the fast one.
Slow == 1

Fast == 2

\* Either provider first, every stagger delay up to the slow latency, and a
\* fetcher that rejects on abort or not.
LatencyOptions ==
    {[providers |-> ps, timeout |-> <<0, 0>>, staggerDelay |-> d,
      retries |-> 0, retryDelay |-> 1, cache |-> FALSE, ttl |-> Infinity,
      maxSize |-> Infinity, hasRateLimit |-> FALSE,
      rateLimit |-> [requests |-> 1, per |-> 1],
      fetcherObservesAbort |-> ob, failureKinds |-> {}] :
        ps \in {<<Slow, Fast>>, <<Fast, Slow>>}, d \in 0..SlowLatency,
        ob \in BOOLEAN}

InitLatency == \E opts \in LatencyOptions : InitWith(opts)

\* The fetcher's timer of branch i is due.
FetchDue(i) ==
    /\ branches[i].fetch = "pending"
    /\ now >= branches[i].start + Latency(branches[i].provider)

\* Timers that are due at the same time fire in the order they were set: the
\* fetcher's timer of the primary, the stagger timer, the fetchers' timers of
\* the other providers.
NextLatency ==
    \/ calls < MaxRaceCalls /\ LookupCall(Cep1)
    \/ \E i \in 1..Len(branches) :
          /\ FetchDue(i)
          /\ \A j \in 1..(i - 1) : ~FetchDue(j)
          /\ (staggerTimeout.state = "armed" /\ now >= staggerTimeout.deadline)
                => branches[i].batch = 0
          /\ FetchFulfils(i)
    \/ /\ \A i \in 1..Len(branches) : ~(FetchDue(i) /\ branches[i].batch = 0)
       /\ StaggerFires
    \/ /\ ~TimerDue
       /\ \A i \in 1..Len(branches) : ~FetchDue(i)
       /\ pc # "idle"
       /\ advanceTimersByTime

SpecLatency == InitLatency /\ [][NextLatency]_vars

\* The request to the slow provider is cancelled in this step: it is in
\* flight and its signal is aborted (a fetcher that observes the signal
\* rejects it with AbortError).
SlowCancelledNow ==
    \E i \in 1..Len(branches) :
       /\ branches[i].provider = Slow
       /\ branches[i].ctl = Len(controllers)
       /\ branches[i].fetch = "pending"
       /\ ~controllers[branches[i].ctl]
       /\ controllers'[branches[i].ctl]
       /\ options.fetcherObservesAbort =>
             /\ branches'[i].fetch = "rejected"
             /\ branches'[i].reason.kind = "AbortError"

\* The time at which the lookup in progress dispatched its first provider.
StartedAt ==
    LET i == CHOOSE k \in 1..Len(branches) :
                 branches[k].ctl = Len(controllers) /\ branches[k].batch = 0
    IN  branches[i].start

\* C27 as stated: with latencies of 100 ms and 50 ms and staggerDelay >= their
\* gap, whichever provider is first in the priority order, the lookup
\* resolves with the faster provider's service and the slower provider's
\* request is cancelled through the abort signal.
C27_FasterWinsFromGap ==
    [][(ResolvesNow /\ options.staggerDelay >= Gap) =>
          /\ call'.result.service = ProviderName(Fast)
          /\ SlowCancelledNow]_vars

\* C27, amended: with staggerDelay below the gap of the two latencies,
\* whichever provider is first in the priority order, the lookup resolves
\* with the faster provider's service, and the slower provider's request, in
\* flight by then, is cancelled through the abort signal.
C27_FasterWinsBelowGap ==
    [][(ResolvesNow /\ options.staggerDelay < Gap) =>
          /\ call'.result.service = ProviderName(Fast)
          /\ now - StartedAt = FastLatency +
                (IF sortedProviders[1] = Fast THEN 0 ELSE options.staggerDelay)
          /\ SlowCancelledNow]_vars

\* The slow provider was first, the stagger delay was below the gap and not
\* zero, and the lookup resolved with the fast provider's Address.
C27_Witness ==
    /\ pc = "resolved"
    /\ sortedProviders[1] = Slow
    /\ options.staggerDelay > 0
    /\ options.staggerDelay < Gap
    /\ call.result.service = ProviderName(Fast)
    /\ controllers = <<TRUE>>

(***************************************************************************)
(* Claims about the dispatches and the cache writes of the race.           *)
(***************************************************************************)
\* C29: within one race attempt (one AbortController) each provider is
\* dispatched at most once, whatever the order of the stagger timer, the
\* primary's rejection and the other providers' settlements: no two requests
\* of one attempt go to the same provider.
C29_DispatchedOnce ==
    \A i, j \in 1..Len(branches) :
        (/\ branches[i].ctl = branches[j].ctl
         /\ branches[i].provider = branches[j].provider) => i = j

\* The keys whose entry this step stores: entries of the Map after the step
\* that the Map before it did not hold.
WrittenNow ==
    {cache'[i].key : i \in {k \in 1..Len(cache') :
        \A j \in 1..Len(cache) : cache[j] # cache'[k]}}

\* C30: the cache is written only by the branch that wins the race.  The
\* step that resolves a lookup through the race leaves the lookup's Address
\* under its CEP, and no other step stores an entry: not the late response
\* of a provider that lost or timed out, and nothing of a lookup that rejects.
C30_WinnerWritesCache ==
    [][/\ (ResolvesNow /\ options.cache /\ ~call'.hit) =>
            /\ CacheHas(cache', call'.cep)
            /\ CacheGetValue(cache', call'.cep) = call'.result
       /\ \A key \in WrittenNow :
            /\ ResolvesNow
            /\ key = call'.cep
            /\ CacheGetValue(cache', key) = call'.result]_vars

(***************************************************************************)
(* The limiter, the cache and the retry loop together: one provider with   *)
(* or without a timeout, a fetcher that does not observe the abort (so a   *)
(* response may arrive after its timeout), a cache without ttl.            *)
(***************************************************************************)
LimitInputs == {Cep1, Hyphenated(Cep1), BadCep}

\* A window shorter than a timeout and its backoff, and a longer one.
LimitPers == {1, 3}

LimitOptions ==
    {[providers |-> <<1>>, timeout |-> <<t>>, staggerDelay |-> 0,
      retries |-> n, retryDelay |-> 1, cache |-> TRUE, ttl |-> Infinity,
      maxSize |-> Infinity, hasRateLimit |-> TRUE,
      rateLimit |-> [requests |-> r, per |-> per],
      fetcherObservesAbort |-> FALSE, failureKinds |-> {"FetchError"}] :
        t \in {0, 1}, n \in 0..MaxRetries, r \in RateRequests,
        per \in LimitPers}

InitLimit == \E opts \in LimitOptions : InitWith(opts)

NextLimit ==
    \/ calls < MaxCalls /\ \E input \in LimitInputs : LookupCall(input)
    \/ \E i \in 1..Len(branches) : FetchFulfils(i)
    \/ \E i \in 1..Len(branches) :
          \E kind \in options.failureKinds : FetchRejects(i, kind)
    \/ \E i \in 1..Len(branches) : ProviderTimeout(i)
    \/ RetryFires
    \/ Tick

SpecLimit == InitLimit /\ [][NextLimit]_vars

\* The window of `per` ms that ends now holds `requests` recorded calls.
WindowFull ==
    Cardinality({k \in 1..Len(requestTimestamps) :
                    requestTimestamps[k] > now - options.rateLimit.per})
        >= options.rateLimit.requests

\* C31: the rate-limit check is the first step of every lookup call.  A call
\* that finds the window full rejects with RateLimitError, also when its CEP
\* is in the cache; every other call records a timestamp, also the call that
\* is then served from the cache and the call that is then rejected with
\* CepValidationError.
C31_LimiterFirst ==
    [][CallStarts =>
         IF WindowFull
         THEN /\ pc' = "rejected"
              /\ call'.error = RateLimitError
              /\ events' = <<>>
         ELSE /\ call'.error # RateLimitError
              /\ requestTimestamps' # <<>>
              /\ requestTimestamps'[Len(requestTimestamps')] = now
              /\ admitted' = Append(admitted, now)]_vars

\* A lookup served from the cache took the last permit of the window, and the
\* next lookup of the same cached CEP was rejected with RateLimitError.
C31_Witness ==
    /\ pc = "rejected"
    /\ call.error = RateLimitError
    /\ call.prev.hit
    /\ call.prev.settledAt = now
    /\ validateCep(call.input) = call.prev.cep
    /\ CacheGetHit(cache, call.prev.cep, options.ttl, now)
    /\ admitted # <<>> /\ admitted[Len(admitted)] = now

\* The timestamps of ts that are inside the window of `per` ms ending now.
InWindow(ts) == SelectSeq(ts, LAMBDA x : x > now - options.rateLimit.per)

\* The last n elements of a sequence.
Suffix(q, n) == SubSeq(q, Len(q) - n + 1, Len(q))

\* C32: a lookup rejected with RateLimitError records no timestamp.  It
\* leaves the limiter's list as pruned, so the list always holds admitted
\* calls only (the newest of them) and the next admission is not postponed,
\* and it makes no cache access and no dispatch.
C32_RejectedNotRecorded ==
    /\ [][(CallStarts /\ call'.error = RateLimitError) =>
            /\ requestTimestamps' = InWindow(requestTimestamps)
            /\ admitted' = admitted
            /\ cache' = cache
            /\ branches' = branches
            /\ controllers' = controllers
            /\ events' = <<>>]_vars
    /\ [](/\ Len(requestTimestamps) <= Len(admitted)
          /\ requestTimestamps = Suffix(admitted, Len(requestTimestamps)))

\* Two calls in a row were rejected with RateLimitError while the cache held
\* an entry, and the limiter's list holds the admitted calls only.
C32_Witness ==
    /\ pc = "rejected"
    /\ call.error = RateLimitError
    /\ call.prev.error = "RateLimitError"
    /\ cache # <<>>
    /\ Len(requestTimestamps) = options.rateLimit.requests
    /\ Len(admitted) = calls - 2

\* The retry timer of lookup() fires in this step.
RetriesNow == pc = "backoff" /\ pc' # "backoff"

\* C33: retries replay only the provider race.  The limiter's list changes
\* only in the step in which lookup() is called, by one timestamp at most;
\* a retry attempt starts a race with a new AbortController whatever the
\* limiter's window and the cache hold by then: it is not rejected with
\* RateLimitError, it is not served from the cache, and it neither reads nor
\* writes the cache.
C33_RetryReplaysRaceOnly ==
    /\ [][IF CallStarts
           THEN Len(admitted') <= Len(admitted) + 1
           ELSE /\ requestTimestamps' = requestTimestamps
                /\ admitted' = admitted]_vars
    /\ [][RetriesNow =>
            /\ pc' = "racing"
            /\ controllers' = Append(controllers, FALSE)
            /\ call'.attempt = call.attempt
            /\ call'.error = NoError
            /\ ~call'.hit
            /\ cache' = cache
            /\ events' = <<>>]_vars

\* The first attempt timed out and its response, arriving during the
\* backoff, was stored in the cache; the retry attempt was dispatched with
\* the CEP in the cache and the limiter's window full.
C33_Witness ==
    /\ pc = "racing"
    /\ call.attempt = 1
    /\ Len(controllers) = 2
    /\ CacheGetHit(cache, call.cep, options.ttl, now)
    /\ WindowFull
    /\ Len(admitted) = 1

(***************************************************************************)
(* Claims about the order of the success handler.                          *)
(***************************************************************************)
\* C34: on a provider's response the sanitized Address is stored in the
\* cache before the success event is emitted: a listener of `success` that
\* reads the cache for the event's CEP during the emit finds the entry.
C34_StoredBeforeSuccess ==
    options.cache => \A i \in SuccessEvents : events[i].cached

(***************************************************************************)
(* Termination of lookup().  Timers that are due fire (the event loop runs *)
(* them) and time passes while a timer is armed; the fetch of a provider  *)
(* that has no timeout eventually settles, that of a provider with a       *)
(* timeout may stay pending for ever.                                      *)
(***************************************************************************)
RECURSIVE MaxOf(_)
MaxOf(q) == IF q = <<>> THEN 0 ELSE Max(Head(q), MaxOf(Tail(q)))

\* The longest that the timers of one lookup() can take: each attempt its
\* stagger delay and its longest provider timeout, and the backoffs
\* retryDelay * (1 + 2 + ... + 2^(retries-1)).
WorstCase(o) ==
    (1 + o.retries) * (o.staggerDelay + MaxOf(o.timeout))
        + o.retryDelay * ((2 ^ o.retries) - 1)

\* One or two providers, each with a timeout of 1 ms or none; the lookups
\* whose timers fit in the time the model counts.  With two providers,
\* retries are explored with a fetcher that observes the signal.
LiveOptions ==
    {o \in
       {[providers |-> [i \in 1..n |-> i], timeout |-> t, staggerDelay |-> sd,
         retries |-> r, retryDelay |-> 1, cache |-> FALSE, ttl |-> Infinity,
         maxSize |-> Infinity, hasRateLimit |-> FALSE,
         rateLimit |-> [requests |-> 0, per |-> 0],
         fetcherObservesAbort |-> oa, failureKinds |-> {"FetchError"}] :
           n \in 1..2, t \in UNION {[1..k -> {0, 1}] : k \in 1..2},
           sd \in {0, 1}, r \in 0..MaxRetries, oa \in BOOLEAN} :
        /\ Len(o.timeout) = Len(o.providers)
        /\ Len(o.providers) = 1 => o.staggerDelay = 0
        /\ Len(o.providers) = 2 => o.retries = 0 \/ o.fetcherObservesAbort
        /\ WorstCase(o) <= MaxTime}

InitLive == \E opts \in LiveOptions : InitWith(opts)

\* The fetch of a provider without timeout settles.
FetchSettles ==
    \E i \in 1..Len(branches) :
        /\ options.timeout[branches[i].provider] = 0
        /\ (FetchFulfils(i) \/ FetchRejects(i, "FetchError"))

NextLive ==
    \/ /\ calls < MaxRaceCalls
       /\ now + WorstCase(options) <= MaxTime
       /\ LookupCall(Cep1)
    \/ \E i \in 1..Len(branches) : FetchFulfils(i)
    \/ \E i \in 1..Len(branches) :
          \E kind \in options.failureKinds : FetchRejects(i, kind)
    \/ \E i \in 1..Len(branches) : ProviderTimeout(i)
    \/ StaggerFires
    \/ RetryFires
    \/ Tick

\* What must happen sooner or later: time passes, a due timer fires, the
\* fetch of a provider without timeout settles.
Progress ==
    \/ Tick
    \/ StaggerFires
    \/ RetryFires
    \/ \E i \in 1..Len(branches) : ProviderTimeout(i)
    \/ FetchSettles

SpecLive == InitLive /\ [][NextLive]_vars /\ WF_vars(Progress)

LookupSettled == pc \in {"resolved", "rejected"}

\* C35: when every provider has a positive timeout or a fetch that
\* eventually settles, every lookup() call eventually settles, within
\* 1 + retries attempts; it resolves with one Address or rejects with one
\* error, and once settled its outcome does not change.  The time the model
\* counts never runs out while a timer is armed.
C35_Terminates ==
    /\ (pc \in {"racing", "backoff"}) ~> LookupSettled
    /\ [](call.attempt <= options.retries)
    /\ [](pc = "resolved" =>
            call.result # NoAddress /\ call.error = NoError)
    /\ [](pc = "rejected" =>
            call.error # NoError /\ call.result = NoAddress)
    /\ [][(LookupSettled /\ ~CallStarts) =>
            /\ pc' = pc
            /\ call'.result = call.result
            /\ call'.error = call.error]_vars
    /\ [](now = MaxTime => TimerDue \/ ~TimeMatters)

\* With two providers that have timeouts, whose fetches settled only by the
\* abort, and one retry, both attempts timed out and the lookup rejected.
C35_Witness ==
    /\ pc = "rejected"
    /\ options.retries = 1
    /\ Len(options.providers) = 2
    /\ \A p \in 1..2 : options.timeout[p] > 0
    /\ call.attempt = 1
    /\ call.error.kind = "AllProvidersFailedError"
    /\ Len(controllers) = 2
    /\ \A i \in 1..Len(branches) :
          /\ branches[i].fetch # "fulfilled"
          /\ branches[i].reason.kind
                \in {"none", "ProviderTimeoutError", "AbortError"}

(***************************************************************************)
(* Claims about the edge of the limiter's window.                          *)
(***************************************************************************)
\* The timestamps of ts that are not older than now - per.
NotOlder(ts) == SelectSeq(ts, LAMBDA x : x >= now - options.rateLimit.per)

\* C36: checkRateLimit prunes exactly the timestamps older than now - per: a
\* timestamp t is kept iff t >= now - per.  A call made exactly `per` ms
\* after the oldest of `requests` admitted calls finds the window full and
\* is rejected; only a call made more than `per` ms after it is admitted.
C36_PrunesOlderOnly ==
    [][CallStarts =>
         IF Len(NotOlder(requestTimestamps)) >= options.rateLimit.requests
         THEN /\ call'.error = RateLimitError
              /\ requestTimestamps' = NotOlder(requestTimestamps)
         ELSE /\ call'.error # RateLimitError
              /\ requestTimestamps' =
                    Append(NotOlder(requestTimestamps), now)]_vars

(***************************************************************************)
(* The backoff of the retry loop: one provider whose fetch rejects or      *)
(* fulfils, up to MaxBackoffRetries retries, a retryDelay of 1 to 3 ms.    *)
(***************************************************************************)
MaxBackoffRetries == 3

RetryDelays == {1, 2, 3}

BackoffOptions ==
    {[providers |-> <<1>>, timeout |-> <<0>>, staggerDelay |-> 0,
      retries |-> r, retryDelay |-> rd, cache |-> FALSE, ttl |-> Infinity,
      maxSize |-> Infinity, hasRateLimit |-> FALSE,
      rateLimit |-> [requests |-> 0, per |-> 0],
      fetcherObservesAbort |-> TRUE, failureKinds |-> {"FetchError"}] :
        r \in 0..MaxBackoffRetries, rd \in RetryDelays}

InitBackoff == \E opts \in BackoffOptions : InitWith(opts)

\* One millisecond of the retry delay passes.
BackoffElapses ==
    /\ pc = "backoff"
    /\ now < call.backoffUntil
    /\ now' = now + 1
    /\ events' = <<>>
    /\ UNCHANGED <<options, sortedProviders, requestTimestamps, cache, pc,
                   call, controllers, staggerTimeout, secondaryPromise,
                   branches, calls, admitted, bulk, warm, access>>

NextBackoff ==
    \/ calls < MaxRaceCalls /\ LookupCall(Cep1)
    \/ \E i \in 1..Len(branches) : FetchFulfils(i)
    \/ \E i \in 1..Len(branches) :
          \E kind \in options.failureKinds : FetchRejects(i, kind)
    \/ RetryFires
    \/ BackoffElapses

SpecBackoff == InitBackoff /\ [][NextBackoff]_vars

\* 2^n by doubling.
RECURSIVE Doubled(_, _)
Doubled(x, n) == IF n = 0 THEN x ELSE Doubled(x + x, n - 1)

\* The requests of the attempt in progress.
CurrentRequests(bs, cs) == {i \in 1..Len(bs) : bs[i].ctl = Len(cs)}

\* C37: before retry attempt k (k = 1..retries) lookup waits
\* retryDelay * 2^(k-1) ms: the attempt that fails with a retry left arms a
\* timer of that delay, the next attempt is dispatched when exactly that
\* delay has passed, and the first attempt is dispatched in the step of the
\* call, without a wait.
C37_ExponentialBackoff ==
    [][/\ (pc = "racing" /\ pc' = "backoff") =>
            /\ call'.attempt \in 1..options.retries
            /\ call'.backoffUntil =
                  now + Doubled(options.retryDelay, call'.attempt - 1)
       /\ RetriesNow =>
            /\ now = call.backoffUntil
            /\ \A i \in CurrentRequests(branches', controllers') :
                  branches'[i].start = call.backoffUntil
       /\ (CallStarts /\ pc' = "racing") =>
            /\ call'.attempt = 0
            /\ \A i \in CurrentRequests(branches', controllers') :
                  branches'[i].start = now]_vars

\* With retryDelay 2 and three retries every attempt failed at once: the
\* fourth attempt was dispatched 2 + 4 + 8 ms after the call.
C37_Witness ==
    /\ options.retryDelay = 2
    /\ pc = "racing"
    /\ call.attempt = 3
    /\ Len(controllers) = 4
    /\ now = 14
    /\ \E i \in 1..Len(branches) :
          branches[i].ctl = 4 /\ branches[i].start = 14

(***************************************************************************)
(* Warmup beside lookups: two providers, a cache, a rate limit; warmup()   *)
(* may be called before, during or after a lookup.                         *)
(***************************************************************************)
\* The lookups beside the warmup: one that fills the cache, one after it.
MaxFrameCalls == 2

FrameOptions ==
    {[providers |-> <<1, 2>>, timeout |-> <<0, 0>>, staggerDelay |-> 1,
      retries |-> 0, retryDelay |-> 1, cache |-> TRUE, ttl |-> Infinity,
      maxSize |-> Infinity, hasRateLimit |-> TRUE,
      rateLimit |-> [requests |-> r, per |-> per],
      fetcherObservesAbort |-> TRUE, failureKinds |-> {"FetchError"}] :
        r \in RateRequests, per \in LimitPers}

InitFrame == \E opts \in FrameOptions : InitWith(opts)

NextFrame ==
    \/ WarmupCall
    \/ \E i \in 1..Len(warm.probes) : ProbeFulfils(i)
    \/ \E i \in 1..Len(warm.probes) : ProbeRejects(i)
    \/ calls < MaxFrameCalls /\ LookupCall(Cep1)
    \/ \E i \in 1..Len(branches) : FetchFulfils(i)
    \/ \E i \in 1..Len(branches) : FetchRejects(i, "FetchError")
    \/ StaggerFires
    \/ Tick

SpecFrame == InitFrame /\ [][NextFrame]_vars

\* A step of warmup(): the call, or the settling of one of its probes.
WarmStep == warm' # warm

\* C38: warmup() changes only the provider priority order.  No step of it,
\* whether its probes fulfil or reject, reads or writes the cache, emits an
\* event, records a rate-limit timestamp or touches a lookup in flight, and
\* the order changes only in the step that settles the last probe.
C38_WarmupOnlyReorders ==
    [][WarmStep =>
         /\ cache' = cache
         /\ access' = access
         /\ events' = <<>>
         /\ requestTimestamps' = requestTimestamps
         /\ admitted' = admitted
         /\ pc' = pc
         /\ call' = call
         /\ branches' = branches
         /\ controllers' = controllers
         /\ (sortedProviders' # sortedProviders =>
                warm.state = "running" /\ warm'.state = "resolved")]_vars

\* A warmup called after a lookup filled the cache and the limiter's window
\* has resolved: one probe failed, one fulfilled, the order changed, and the
\* cache entry and the recorded timestamp are still there.
C38_Witness ==
    /\ warm.state = "resolved"
    /\ \E i \in 1..2 : warm.probes[i].error
    /\ \E i \in 1..2 : ~warm.probes[i].error
    /\ sortedProviders # options.providers
    /\ \A i \in 1..2 : warm.probes[i].start >= 1
    /\ Len(cache) = 1
    /\ WindowFull
    /\ pc = "resolved"

(***************************************************************************)
(* The InMemoryCache under all five of its operations: three keys, a limit *)
(* of 1 or 2, with no ttl and with a ttl of 1 ms.                          *)
(***************************************************************************)
\* cache.delete(key)
DeleteCall(key) ==
    /\ cache' = CacheDelete(cache, key)
    /\ access' = [Before("delete", key) EXCEPT !.holds = FALSE]
    /\ events' = <<>>
    /\ UNCHANGED <<options, sortedProviders, now, requestTimestamps, pc, call,
                   controllers, staggerTimeout, secondaryPromise, branches,
                   calls, admitted, bulk, warm>>

\* cache.clear()
ClearCall ==
    /\ cache' = CacheClear(cache)
    /\ access' = [NoAccess EXCEPT !.op = "clear", !.size = Len(cache)]
    /\ events' = <<>>
    /\ UNCHANGED <<options, sortedProviders, now, requestTimestamps, pc, call,
                   controllers, staggerTimeout, secondaryPromise, branches,
                   calls, admitted, bulk, warm>>

NextOps ==
    \/ \E key \in SizeKeys : \E value \in SizeValues : SetCall(key, value)
    \/ \E key \in SizeKeys : GetCall(key)
    \/ \E key \in SizeKeys : HasCall(key)
    \/ \E key \in SizeKeys : DeleteCall(key)
    \/ ClearCall
    \/ now < MaxSizeTime /\ advanceTimersByTime

SpecOps == InitSize /\ [][NextOps]_vars

\* C39: a cache with maxSize M >= 1 never stores more than M entries, after
\* any sequence of set, get, has, delete and clear; its entries have distinct
\* keys, and delete and clear remove what they are asked to remove.
C39_SizeBounded ==
    /\ options.maxSize >= 1
    /\ Len(cache) <= options.maxSize
    /\ \A i, j \in 1..Len(cache) : cache[i].key = cache[j].key => i = j
    /\ access.op = "delete" => ~CacheHas(cache, access.key)
    /\ access.op = "clear" => cache = <<>>
    /\ access.op = "set" => CacheHas(cache, access.key)

\* A set of a new key into a cache that held its limit of two entries: the
\* cache holds two entries again.
C39_Witness ==
    /\ options.maxSize = 2
    /\ access.op = "set"
    /\ ~access.held
    /\ access.size = 2
    /\ Len(cache) = 2

\* The entry of key in c.
EntryOf(c, key) == c[CHOOSE i \in 1..Len(c) : c[i].key = key]

\* C40: set on a key the cache holds re-inserts it.  The key becomes the
\* newest entry in eviction order, its timestamp restarts at the time of the
\* call, and the other entries keep their order; so with maxSize 2 the set of
\* a new key that follows evicts the other key and keeps the re-inserted one.
C40_SetReinserts ==
    [][\A key \in SizeKeys : \A value \in SizeValues :
          /\ (SetCall(key, value) /\ CacheHas(cache, key)) =>
                /\ Len(cache') = Len(cache)
                /\ cache'[Len(cache')] =
                      [key |-> key, value |-> value, timestamp |-> now]
                /\ \A k1, k2 \in SizeKeys \ {key} :
                      (CacheHas(cache, k1) /\ CacheHas(cache, k2)) =>
                         /\ CacheHas(cache', k1)
                         /\ EntryOf(cache', k1) = EntryOf(cache, k1)
                         /\ (CacheIndex(cache, k1) < CacheIndex(cache, k2)
                               <=> CacheIndex(cache', k1) < CacheIndex(cache', k2))
          /\ (/\ SetCall(key, value)
              /\ ~CacheHas(cache, key)
              /\ options.maxSize = 2
              /\ access.op = "set"
              /\ access.held
              /\ access.size = 2) =>
                /\ KeysOf(cache') = <<access.key, key>>
                /\ \A other \in SizeKeys \ {access.key, key} :
                      ~CacheHas(cache', other)]_vars

\* set(a) at 0 ms, set(b) at 1 ms, set(a) at 2 ms with maxSize 2: a, which
\* was the older entry, now stands behind b with a timestamp of 2 ms, so the
\* set of a new key that follows evicts b.
C40_Witness ==
    /\ options.maxSize = 2
    /\ access.op = "set"
    /\ access.held
    /\ access.size = 2
    /\ access.age = 2
    /\ now = 2
    /\ Len(cache) = 2
    /\ cache[2].key = access.key
    /\ cache[2].timestamp = 2
    /\ cache[1].timestamp = 1

====
